---- MODULE Spec2Model ----
(***************************************************************************)
(* Models of the command interpreters and file parsers of the corpus.      *)
(*                                                                         *)
(*   Spec       the integer-array managers, bug5.cpp and bug6.c            *)
(*   SpecKV     the key-value store, bug7.c                                *)
(*   SpecLoad   the line-oriented loaders, bug2.c and bug3.c               *)
(*   SpecFile   the binary file parsers, bug8.c, bug9.c and bug10.c        *)
(*   SpecCalc   the command interpreter, bug1.c                            *)
(*   SpecConfig the configuration reader, bug4.cpp                         *)
(*   SpecLines  bug1, bug5, bug6 and bug7 together: the programs that      *)
(*              read command lines                                         *)
(*   SpecMain   bug3, bug7, bug8, bug9 and bug10 from the start of main:   *)
(*              the programs that read a file named on the command line    *)
(*                                                                         *)
(* Machine words are modelled with a reduced width: size_t and long have   *)
(* SizeBits bits, int has IntBits bits, arithmetic wraps as on the LP64    *)
(* target.  The allocator refuses every request above MaxAllocBytes and    *)
(* may refuse any other request.  A memory fault (a read or write outside  *)
(* a live block, a second free, a division by zero, an uncaught C++        *)
(* exception) is recorded in `fault` and stops the program: pc becomes     *)
(* "crashed".  "oob_read"/"oob_write" are accesses outside a storage       *)
(* block, "table_oob" an access outside the handle table itself.           *)
(***************************************************************************)
EXTENDS Integers, Sequences, FiniteSets, TLC

VARIABLES
    prog,       \* which program runs: "bug1" .. "bug10"
    pc,         \* "run" (reading lines), "done" (returned from main), "crashed";
                \* in the file parsers "header", "loop", "stats" before "done"
    arrays,     \* the handle table; slot idx is arrays[idx + 1]
    heap,       \* every block malloc ever returned; pointer p is heap[p], 0 is NULL
    fault,      \* "none", or the memory/arithmetic fault that stopped the program
    last,       \* the last command executed, its arguments and what it reported
    ncmds,      \* number of commands read so far
    pairs,          \* bug7: the pairs array, pairs[i] is pairs[i + 1]
    pair_count,     \* bug7: number of pairs in use
    pair_capacity,  \* bug7: number of pairs allocated
    users,          \* bug2: the users array, users[i] is users[i + 1]
    user_count,     \* bug2: number of users stored
    user_capacity,  \* bug2: number of users allocated
    books,          \* bug3: the books array, books[i] is books[i + 1]
    book_count,     \* bug3: number of books stored
    book_capacity,  \* bug3: number of books allocated
    file,           \* bug8, bug9, bug10: the bytes of the input file
    fpos,           \* the file position: the number of bytes consumed
    iter,           \* the index i of the reading loop of main
    doc_count,      \* bug8: the document count of the header
    docs,           \* bug8: the docs array, docs[i] is docs[i + 1]
    record_count,   \* bug10: the record count of the header
    records,        \* bug10: the records array
    node_count,     \* bug9: the node count of the header
    edge_count,     \* bug9: the edge count of the header
    graphs,         \* bug9: the array of adjacency lists
    entries,        \* bug4: the vector of configuration entries
    paramPointers   \* bug4: the vector of pointers to the entries' param strings

arrvars == <<prog, pc, arrays, heap, fault, last, ncmds>>

kvvars == <<pairs, pair_count, pair_capacity>>

loadvars == <<users, user_count, user_capacity, books, book_count, book_capacity>>

filevars == <<file, fpos, iter, doc_count, docs, record_count, records,
              node_count, edge_count, graphs>>

cfgvars == <<entries, paramPointers>>

\* the state the array managers do not have
nonarrvars == <<kvvars, loadvars, filevars, cfgvars>>

vars == <<arrvars, kvvars, loadvars, filevars, cfgvars>>

-----------------------------------------------------------------------------
(* Bounds of the model *)

SizeBits == 16
IntBits == 8
MaxAllocBytes == 1024
MaxCmds == 3
MaxLines == 2
MaxLineLen == 5
MaxWords == 4

(* Program constants *)

SizeofInt == 4
SizeofArray == 24
MinSlots == 16
Bug6NegFallback == 10
Bug6OverflowFallback == 100
Bug5NegFallback == 100
SpliceFallback == 10

-----------------------------------------------------------------------------
(* C integer types *)

SIZE_MAX == 2^SizeBits - 1
LONG_MAX == 2^(SizeBits - 1) - 1
LONG_MIN == 0 - 2^(SizeBits - 1)
INT_MAX == 2^(IntBits - 1) - 1
INT_MIN == 0 - 2^(IntBits - 1)

\* conversion to size_t: reduction modulo 2^SizeBits
ToSize(x) == x % (2^SizeBits)

\* conversion to long (two's complement)
ToLong(x) == IF ToSize(x) > LONG_MAX THEN ToSize(x) - 2^SizeBits ELSE ToSize(x)

\* conversion to int, as in data[i] = (int)value
ToInt(x) == IF x % (2^IntBits) > INT_MAX THEN (x % (2^IntBits)) - 2^IntBits
            ELSE x % (2^IntBits)

\* the content of storage that was allocated and never written
Uninit == INT_MIN - 1

-----------------------------------------------------------------------------
(* The allocator *)

NULL == 0

Block(bytes, cells) == [live |-> TRUE, bytes |-> bytes, cells |-> cells]

FreedBlock == [live |-> FALSE, bytes |-> 0, cells |-> <<>>]

\* number of int elements a block has room for
Cap(h, p) == Len(h[p].cells)

IsLive(h, p) == p \in 1..Len(h) /\ h[p].live

\* malloc(bytes) that succeeds: a new block, its content uninitialized;
\* the pointer returned is Len(h) + 1
MallocOk(h, bytes) ==
    Append(h, Block(bytes, [i \in 1..(bytes \div SizeofInt) |-> Uninit]))

\* may malloc(bytes) / realloc(p, bytes) succeed at all
CanAlloc(bytes, ok) == ok /\ bytes <= MaxAllocBytes

\* free(p) of a live block, or of NULL
FreeBlock(h, p) == IF p = NULL THEN h ELSE [h EXCEPT ![p] = FreedBlock]

\* realloc(p, bytes) that succeeds, bytes > 0: the old content is kept up to
\* the smaller of the two sizes, the rest is uninitialized
ReallocOk(h, p, bytes) ==
    LET n == bytes \div SizeofInt
        old == IF p = NULL THEN <<>> ELSE h[p].cells
        cells == [i \in 1..n |-> IF i <= Len(old) THEN old[i] ELSE Uninit]
    IN IF p = NULL THEN Append(h, Block(bytes, cells))
       ELSE [h EXCEPT ![p] = Block(bytes, cells)]

\* the fault of accessing elements lo..hi (C indices, lo <= hi) through p
AccessFault(h, p, lo, hi, kind) ==
    IF p = NULL THEN "null_deref"
    ELSE IF ~IsLive(h, p) THEN "use_after_free"
    ELSE IF lo < 0 \/ hi >= Cap(h, p) THEN kind
    ELSE "none"

\* the fault of free(p)
FreeFault(h, p) == IF p = NULL \/ IsLive(h, p) THEN "none" ELSE "double_free"

-----------------------------------------------------------------------------
(* The handle table *)

Slot(d, s, a) == [data |-> d, size |-> s, allocated |-> a]

EmptySlot == Slot(NULL, 0, FALSE)

At(t, idx) == t[idx + 1]

SetSlot(t, idx, s) == [t EXCEPT ![idx + 1] = s]

\* the elements of slot idx as the program sees them: data[0 .. size-1]
Elems(t, h, idx) ==
    [i \in 1..At(t, idx).size |-> h[At(t, idx).data].cells[i]]

\* what a handler returns to the dispatch loop
Ret(t, h, res, err, out) ==
    [arrays |-> t, heap |-> h, fault |-> "none", res |-> res, err |-> err, out |-> out]

Crash(t, h, f) ==
    [arrays |-> t, heap |-> h, fault |-> f, res |-> "crash", err |-> "", out |-> <<>>]

-----------------------------------------------------------------------------
(* Text of the input lines: a token is a sequence of characters *)

Min(a, b) == IF a <= b THEN a ELSE b

\* fields[j]++ while it points at a blank
RECURSIVE Trim(_)
Trim(s) == IF s # <<>> /\ Head(s) = " " THEN Trim(Tail(s)) ELSE s

DigitChars == <<"0", "1", "2", "3", "4", "5", "6", "7", "8", "9">>

\* the value of a decimal digit, -1 for any other character
Digit(ch) ==
    IF \E d \in 1..10 : DigitChars[d] = ch
    THEN (CHOOSE d \in 1..10 : DigitChars[d] = ch) - 1
    ELSE -1

\* the value of the leading digits of s, continuing from acc
RECURSIVE Digits(_, _)
Digits(s, acc) ==
    IF s = <<>> \/ Digit(Head(s)) < 0 THEN acc
    ELSE Digits(Tail(s), ToInt(acc * 10 + Digit(Head(s))))

\* blanks, an optional sign, then digits; 0 when there is no digit
atoi(s) ==
    LET t == Trim(s)
    IN  IF t # <<>> /\ Head(t) = "-" THEN ToInt(0 - Digits(Tail(t), 0))
        ELSE IF t # <<>> /\ Head(t) = "+" THEN Digits(Tail(t), 0)
        ELSE Digits(t, 0)

\* the decimal numeral of n, as it is written on an input line
RECURSIVE DecDigits(_)
DecDigits(n) ==
    IF n < 10 THEN <<DigitChars[n + 1]>>
    ELSE Append(DecDigits(n \div 10), DigitChars[(n % 10) + 1])

Dec(n) == IF n < 0 THEN <<"-">> \o DecDigits(0 - n) ELSE DecDigits(n)

\* strtol(s, NULL, 10): blanks, an optional sign, then digits; 0 when there
\* is no digit, LONG_MAX or LONG_MIN when the value is out of range
RECURSIVE StrtolDigits(_, _)
StrtolDigits(s, acc) ==
    IF s = <<>> \/ Digit(Head(s)) < 0 THEN acc
    ELSE StrtolDigits(Tail(s), Min(acc * 10 + Digit(Head(s)), LONG_MAX + 1))

strtol(s) ==
    LET t == Trim(s)
        signed == t # <<>> /\ Head(t) \in {"-", "+"}
        m == StrtolDigits(IF signed THEN Tail(t) ELSE t, 0)
    IN  IF signed /\ Head(t) = "-"
        THEN (IF m > LONG_MAX THEN LONG_MIN ELSE 0 - m)
        ELSE Min(m, LONG_MAX)

-----------------------------------------------------------------------------
(* Arithmetic and allocation the handlers share *)

\* a / b in C: the quotient truncated towards zero
CDiv(a, b) ==
    IF (a >= 0) = (b > 0) THEN (IF a >= 0 THEN a ELSE -a) \div (IF b > 0 THEN b ELSE -b)
    ELSE -((IF a >= 0 THEN a ELSE -a) \div (IF b > 0 THEN b ELSE -b))

RECURSIVE SumOver(_, _)
\* the sum of v[1] .. v[n]
SumOver(v, n) == IF n = 0 THEN 0 ELSE SumOver(v, n - 1) + v[n]

RECURSIVE SumCells(_, _, _)
\* the sum of v[lo] .. v[hi], added up by halves
SumCells(v, lo, hi) ==
    IF lo > hi THEN 0
    ELSE IF lo = hi THEN v[lo]
    ELSE SumCells(v, lo, (lo + hi) \div 2) + SumCells(v, (lo + hi) \div 2 + 1, hi)

\* a + b on long.  Signed overflow is undefined: the build either wraps
\* (two's complement add) or traps (-ftrapv, a sanitizer build)
SAdd(a, b, trap) ==
    IF LONG_MIN <= a + b /\ a + b <= LONG_MAX THEN [v |-> a + b, fault |-> "none"]
    ELSE IF trap THEN [v |-> 0, fault |-> "signed_overflow"]
    ELSE [v |-> ToLong(a + b), fault |-> "none"]

\* realloc(p, bytes).  r is what the allocator decides: "ok", "fail", or, for a
\* request of 0 bytes, "zfree" (the block is freed and NULL returned, as glibc does)
Realloc(h, p, bytes, r) ==
    IF p # NULL /\ ~IsLive(h, p) THEN [heap |-> h, ptr |-> NULL, fault |-> "use_after_free"]
    ELSE IF bytes = 0 /\ p # NULL /\ r = "zfree"
        THEN [heap |-> FreeBlock(h, p), ptr |-> NULL, fault |-> "none"]
    ELSE IF ~CanAlloc(bytes, r = "ok") THEN [heap |-> h, ptr |-> NULL, fault |-> "none"]
    ELSE [heap |-> ReallocOk(h, p, bytes),
          ptr |-> IF p = NULL THEN Len(h) + 1 ELSE p,
          fault |-> "none"]

\* the first fault of   for (i = 0; i < count; i++) dp[dsize + i] = sp[offset + i];
CopyFault(h, dp, dsize, sp, offset, count) ==
    LET iR == IF Cap(h, sp) - offset > 0 THEN Cap(h, sp) - offset ELSE 0
        iW == IF Cap(h, dp) - dsize > 0 THEN Cap(h, dp) - dsize ELSE 0
    IN IF count <= 0 THEN "none"
       ELSE IF sp = NULL \/ dp = NULL THEN "null_deref"
       ELSE IF ~IsLive(h, sp) \/ ~IsLive(h, dp) THEN "use_after_free"
       ELSE IF iR < count /\ iR <= iW THEN "oob_read"
       ELSE IF iW < count THEN "oob_write"
       ELSE "none"

\* the heap after that loop ran without a fault
CopyCells(h, dp, dsize, sp, offset, count) ==
    [h EXCEPT ![dp].cells =
        [i \in 1..Len(@) |->
            IF dsize < i /\ i <= dsize + count THEN h[sp].cells[offset + (i - dsize)]
            ELSE @[i]]]

\* the heap after   for (i = 0; i < n; i++) p[i] = v;   ran without a fault
FillCells(h, p, n, v) ==
    [h EXCEPT ![p].cells = [i \in 1..Len(@) |-> IF i <= n THEN v ELSE @[i]]]

-----------------------------------------------------------------------------
(* bug6.c *)

bug6_ensure_capacity(t, idx, ok) ==
    LET array_count == Len(t)
        n0 == ToSize(idx + 1)
        n1 == IF n0 < ToSize(array_count * 2) THEN ToSize(array_count * 2 + 1) ELSE n0
        new_count == IF n1 < MinSlots THEN MinSlots ELSE n1
        bytes == ToSize(new_count * SizeofArray)
    IN IF idx < array_count THEN [arrays |-> t, fault |-> "none"]
       ELSE IF ~CanAlloc(bytes, ok) THEN [arrays |-> t, fault |-> "none"]
       ELSE IF bytes \div SizeofArray < new_count THEN [arrays |-> t, fault |-> "table_oob"]
       ELSE [arrays |-> [i \in 1..new_count |-> IF i <= array_count THEN t[i] ELSE EmptySlot],
             fault |-> "none"]

bug6_create_array(t, h, idx, size_arg, okT, okM) ==
    LET ec == bug6_ensure_capacity(t, idx, okT)
        t1 == ec.arrays
    IN IF ec.fault # "none" THEN Crash(t, h, ec.fault)
       ELSE IF idx >= Len(t1) THEN Ret(t1, h, "rejected", "", <<>>)
       ELSE
        LET old == At(t1, idx)
            ff == IF old.allocated THEN FreeFault(h, old.data) ELSE "none"
            h1 == IF old.allocated THEN FreeBlock(h, old.data) ELSE h
            t2 == IF old.allocated THEN SetSlot(t1, idx, EmptySlot) ELSE t1
            sa == IF size_arg < 0 THEN Bug6NegFallback ELSE size_arg
            count == IF ToSize(sa) > SIZE_MAX \div SizeofInt THEN Bug6OverflowFallback
                     ELSE ToSize(sa)
            bytes == ToSize(count * SizeofInt)
        IN IF ff # "none" THEN Crash(t1, h, ff)
           ELSE IF ~CanAlloc(bytes, okM) THEN Ret(t2, h1, "nomem", "", <<>>)
           ELSE
            LET h2 == MallocOk(h1, bytes)
                p == Len(h2)
                t3 == SetSlot(t2, idx, Slot(p, count, TRUE))
                wf == IF count = 0 THEN "none"
                      ELSE AccessFault(h2, p, 0, count - 1, "oob_write")
            IN IF wf # "none" THEN Crash(t3, h2, wf)
               ELSE Ret(t3, FillCells(h2, p, count, 0), "ok", "", <<>>)

\* fill_array with the loop bound off by one (i < size - 1)
bug6_fill_array_short(t, h, idx, value) ==
    IF idx >= Len(t) \/ ~At(t, idx).allocated THEN Ret(t, h, "rejected", "", <<>>)
    ELSE IF At(t, idx).size = 0 THEN Ret(t, h, "ok", "", <<>>)
    ELSE IF AccessFault(h, At(t, idx).data, 0, At(t, idx).size - 1, "oob_write") # "none"
        THEN Crash(t, h, AccessFault(h, At(t, idx).data, 0, At(t, idx).size - 1, "oob_write"))
    ELSE Ret(t, FillCells(h, At(t, idx).data, At(t, idx).size - 1, ToInt(value)),
             "ok", "", <<>>)

bug6_fill_array(t, h, idx, value) ==
    IF idx >= Len(t) \/ ~At(t, idx).allocated THEN Ret(t, h, "rejected", "", <<>>)
    ELSE
        LET a == At(t, idx)
            wf == IF a.size = 0 THEN "none"
                  ELSE AccessFault(h, a.data, 0, a.size - 1, "oob_write")
        IN IF wf # "none" THEN Crash(t, h, wf)
           ELSE IF a.size = 0 THEN Ret(t, h, "ok", "", <<>>)
           ELSE Ret(t, FillCells(h, a.data, a.size, ToInt(value)), "ok", "", <<>>)

bug6_splice_array(t, h, dest, src, offset, count, trap, r) ==
    IF dest >= Len(t) \/ src >= Len(t) THEN Ret(t, h, "rejected", "", <<>>)
    ELSE IF ~At(t, dest).allocated \/ ~At(t, src).allocated
        THEN Ret(t, h, "rejected", "", <<>>)
    ELSE IF offset < 0 \/ count < 0 THEN Ret(t, h, "rejected", "", <<>>)
    ELSE
        LET end == SAdd(offset, count, trap)
            d == At(t, dest)
            n0 == ToSize(d.size + ToSize(count))
            new_size == IF n0 < d.size THEN ToSize(d.size + SpliceFallback) ELSE n0
            rr == Realloc(h, d.data, ToSize(new_size * SizeofInt), r)
            t1 == SetSlot(t, dest, Slot(rr.ptr, d.size, TRUE))
            sp == At(t1, src).data
            cf == CopyFault(rr.heap, rr.ptr, d.size, sp, offset, count)
        IN IF end.fault # "none" THEN Crash(t, h, end.fault)
           ELSE IF ToLong(At(t, src).size) < end.v THEN Ret(t, h, "rejected", "", <<>>)
           ELSE IF rr.fault # "none" THEN Crash(t, h, rr.fault)
           ELSE IF rr.ptr = NULL THEN Ret(t, rr.heap, "nomem", "", <<>>)
           ELSE IF cf # "none" THEN Crash(t1, rr.heap, cf)
           ELSE Ret(SetSlot(t1, dest, Slot(rr.ptr, new_size, TRUE)),
                    CopyCells(rr.heap, rr.ptr, d.size, sp, offset, count),
                    "ok", "", <<>>)

\* the two memcpy calls of join_arrays: p[0 .. s1-1] = d1[..], p[s1 .. s1+s2-1] = d2[..]
JoinFault(h, p, d1, s1, d2, s2) ==
    LET r1 == IF s1 = 0 THEN "none" ELSE AccessFault(h, d1, 0, s1 - 1, "oob_read")
        w1 == IF s1 = 0 THEN "none" ELSE AccessFault(h, p, 0, s1 - 1, "oob_write")
        r2 == IF s2 = 0 THEN "none" ELSE AccessFault(h, d2, 0, s2 - 1, "oob_read")
        w2 == IF s2 = 0 THEN "none" ELSE AccessFault(h, p, s1, s1 + s2 - 1, "oob_write")
    IN IF r1 # "none" THEN r1 ELSE IF w1 # "none" THEN w1
       ELSE IF r2 # "none" THEN r2 ELSE w2

JoinCells(h, p, d1, s1, d2, s2) ==
    [h EXCEPT ![p].cells =
        [i \in 1..Len(@) |->
            IF i <= s1 THEN h[d1].cells[i]
            ELSE IF i <= s1 + s2 THEN h[d2].cells[i - s1]
            ELSE @[i]]]

bug6_join_arrays(t, h, new_idx, idx1, idx2, okT, okM) ==
    IF idx1 >= Len(t) \/ idx2 >= Len(t) THEN Ret(t, h, "rejected", "", <<>>)
    ELSE IF ~At(t, idx1).allocated \/ ~At(t, idx2).allocated
        THEN Ret(t, h, "rejected", "", <<>>)
    ELSE
        LET s1 == At(t, idx1).size
            s2 == At(t, idx2).size
            n0 == ToSize(s1 + s2)
            new_size == IF n0 < s1 \/ n0 < s2 THEN ToSize(s1 + s2 \div 2) ELSE n0
            ec == bug6_ensure_capacity(t, new_idx, okT)
            t1 == ec.arrays
        IN IF ec.fault # "none" THEN Crash(t, h, ec.fault)
           ELSE IF new_idx >= Len(t1) THEN Ret(t1, h, "rejected", "", <<>>)
           ELSE
            LET old == At(t1, new_idx)
                ff == IF old.allocated THEN FreeFault(h, old.data) ELSE "none"
                h1 == IF old.allocated THEN FreeBlock(h, old.data) ELSE h
                bytes == ToSize(new_size * SizeofInt)
                h2 == MallocOk(h1, bytes)
                p == Len(h2)
                d1 == At(t1, idx1).data
                d2 == At(t1, idx2).data
                jf == JoinFault(h2, p, d1, s1, d2, s2)
            IN IF ff # "none" THEN Crash(t1, h, ff)
               ELSE IF ~CanAlloc(bytes, okM) THEN Ret(t1, h1, "nomem", "", <<>>)
               ELSE IF jf # "none" THEN Crash(t1, h2, jf)
               ELSE Ret(SetSlot(t1, new_idx, Slot(p, new_size, TRUE)),
                        JoinCells(h2, p, d1, s1, d2, s2), "ok", "", <<>>)

\* free_array without the test idx < array_count
bug6_free_array_unchecked(t, h, idx) ==
    IF idx >= Len(t) THEN Crash(t, h, "table_oob")
    ELSE IF At(t, idx).allocated
    THEN IF FreeFault(h, At(t, idx).data) # "none"
         THEN Crash(t, h, FreeFault(h, At(t, idx).data))
         ELSE Ret(SetSlot(t, idx, EmptySlot), FreeBlock(h, At(t, idx).data), "ok", "", <<>>)
    ELSE Ret(t, h, "rejected", "", <<>>)

bug6_free_array(t, h, idx) ==
    IF idx < Len(t) /\ At(t, idx).allocated
    THEN IF FreeFault(h, At(t, idx).data) # "none"
         THEN Crash(t, h, FreeFault(h, At(t, idx).data))
         ELSE Ret(SetSlot(t, idx, EmptySlot), FreeBlock(h, At(t, idx).data), "ok", "", <<>>)
    ELSE Ret(t, h, "rejected", "", <<>>)

\* print_array with the upper test off by one ((size_t)end > size)
bug6_print_array_offbyone(t, h, idx, start, end) ==
    IF idx >= Len(t) \/ ~At(t, idx).allocated THEN Ret(t, h, "rejected", "", <<>>)
    ELSE IF start < 0 \/ end < start \/ ToSize(end) > At(t, idx).size
        THEN Ret(t, h, "rejected", "", <<>>)
    ELSE IF AccessFault(h, At(t, idx).data, start, end, "oob_read") # "none"
        THEN Crash(t, h, AccessFault(h, At(t, idx).data, start, end, "oob_read"))
    ELSE Ret(t, h, "ok", "",
             [i \in 1..(end - start + 1) |-> h[At(t, idx).data].cells[start + i]])

bug6_print_array(t, h, idx, start, end) ==
    IF idx >= Len(t) \/ ~At(t, idx).allocated THEN Ret(t, h, "rejected", "", <<>>)
    ELSE IF start < 0 \/ end < start \/ ToSize(end) >= At(t, idx).size
        THEN Ret(t, h, "rejected", "", <<>>)
    ELSE IF AccessFault(h, At(t, idx).data, start, end, "oob_read") # "none"
        THEN Crash(t, h, AccessFault(h, At(t, idx).data, start, end, "oob_read"))
    ELSE Ret(t, h, "ok", "",
             [i \in 1..(end - start + 1) |-> h[At(t, idx).data].cells[start + i]])

\* compute_stat: the average of data[0 .. size-1], the sum kept in a long
bug6_compute_stat(t, h, idx) ==
    IF idx >= Len(t) \/ ~At(t, idx).allocated THEN Ret(t, h, "rejected", "", <<>>)
    ELSE IF At(t, idx).size = 0 THEN Ret(t, h, "rejected", "", <<>>)
    ELSE IF AccessFault(h, At(t, idx).data, 0, At(t, idx).size - 1, "oob_read") # "none"
        THEN Crash(t, h, AccessFault(h, At(t, idx).data, 0, At(t, idx).size - 1, "oob_read"))
    ELSE Ret(t, h, "ok", "",
             <<CDiv(ToLong(SumCells(Elems(t, h, idx), 1, At(t, idx).size)), At(t, idx).size)>>)

-----------------------------------------------------------------------------
(* bug5.cpp *)

\* arrays.resize(idx + 1, {NULL, 0, false}).  A vector that cannot grow throws
\* (std::bad_alloc, std::length_error) and nothing catches it.
bug5_ensure_capacity(t, idx, ok) ==
    LET n == ToSize(idx + 1) IN
    IF idx < Len(t) THEN [arrays |-> t, fault |-> "none"]
    ELSE IF n <= Len(t) THEN [arrays |-> SubSeq(t, 1, n), fault |-> "none"]
    ELSE IF ~CanAlloc(n * SizeofArray, ok) THEN [arrays |-> t, fault |-> "uncaught_exception"]
    ELSE [arrays |-> [i \in 1..n |-> IF i <= Len(t) THEN t[i] ELSE EmptySlot],
          fault |-> "none"]

bug5_create_array(t, h, idx, count_arg, okT, okM) ==
    LET ec == bug5_ensure_capacity(t, idx, okT)
        t1 == ec.arrays
    IN IF ec.fault # "none" THEN Crash(t, h, ec.fault)
       ELSE IF idx >= Len(t1) THEN Crash(t1, h, "table_oob")
       ELSE
        LET old == At(t1, idx)
            ff == IF old.allocated THEN FreeFault(h, old.data) ELSE "none"
            h1 == IF old.allocated THEN FreeBlock(h, old.data) ELSE h
            t2 == IF old.allocated THEN SetSlot(t1, idx, EmptySlot) ELSE t1
            count == IF count_arg < 0 THEN Bug5NegFallback ELSE count_arg
            alloc_size == ToSize(ToSize(count) * SizeofInt)
        IN IF ff # "none" THEN Crash(t1, h, ff)
           ELSE IF ~CanAlloc(alloc_size, okM) THEN Ret(t2, h1, "nomem", "", <<>>)
           ELSE
            LET h2 == MallocOk(h1, alloc_size)
                p == Len(h2)
                t3 == SetSlot(t2, idx, Slot(p, ToSize(count), TRUE))
                wf == IF ToSize(count) = 0 THEN "none"
                      ELSE AccessFault(h2, p, 0, ToSize(count) - 1, "oob_write")
            IN IF wf # "none" THEN Crash(t3, h2, wf)
               ELSE Ret(t3, FillCells(h2, p, ToSize(count), 0), "ok", "", <<>>)

bug5_fill_array(t, h, idx, value) ==
    IF idx >= Len(t) \/ ~At(t, idx).allocated
    THEN Ret(t, h, "rejected", "fill_array: array not allocated", <<>>)
    ELSE
        LET a == At(t, idx)
            wf == IF a.size = 0 THEN "none"
                  ELSE AccessFault(h, a.data, 0, a.size - 1, "oob_write")
        IN IF wf # "none" THEN Crash(t, h, wf)
           ELSE IF a.size = 0 THEN Ret(t, h, "ok", "", <<>>)
           ELSE Ret(t, FillCells(h, a.data, a.size, ToInt(value)), "ok", "", <<>>)

bug5_splice_array(t, h, dest, src, offset, count, okT, trap, r) ==
    LET e1 == bug5_ensure_capacity(t, dest, okT)
        e2 == bug5_ensure_capacity(e1.arrays, src, okT)
        t1 == e2.arrays
    IN IF e1.fault # "none" THEN Crash(t, h, e1.fault)
       ELSE IF e2.fault # "none" THEN Crash(e1.arrays, h, e2.fault)
       ELSE IF dest >= Len(t1) THEN Crash(t1, h, "table_oob")
       ELSE IF At(t1, dest).allocated /\ src >= Len(t1) THEN Crash(t1, h, "table_oob")
       ELSE IF ~At(t1, dest).allocated \/ ~At(t1, src).allocated
        THEN Ret(t1, h, "rejected", "splice_array: one or both arrays not allocated", <<>>)
       ELSE IF offset < 0 \/ count < 0
        THEN Ret(t1, h, "rejected", "splice_array: invalid offset/count", <<>>)
       ELSE
        LET end == SAdd(offset, count, trap)
            d == At(t1, dest)
            ns == SAdd(ToLong(d.size), count, trap)
            new_size == IF ns.v < 0 THEN SpliceFallback ELSE ns.v
            rr == Realloc(h, d.data, ToSize(ToSize(new_size) * SizeofInt), r)
            t2 == SetSlot(t1, dest, Slot(rr.ptr, d.size, TRUE))
            sp == At(t2, src).data
            cf == CopyFault(rr.heap, rr.ptr, d.size, sp, offset, count)
        IN IF end.fault # "none" THEN Crash(t1, h, end.fault)
           ELSE IF ToLong(At(t1, src).size) < end.v
            THEN Ret(t1, h, "rejected", "splice_array: invalid offset/count", <<>>)
           ELSE IF ns.fault # "none" THEN Crash(t1, h, ns.fault)
           ELSE IF rr.fault # "none" THEN Crash(t1, h, rr.fault)
           ELSE IF rr.ptr = NULL
            THEN Ret(t1, rr.heap, "nomem", "splice_array: realloc failed", <<>>)
           ELSE IF cf # "none" THEN Crash(t2, rr.heap, cf)
           ELSE Ret(SetSlot(t2, dest, Slot(rr.ptr, ToSize(new_size), TRUE)),
                    CopyCells(rr.heap, rr.ptr, d.size, sp, offset, count),
                    "ok", "", <<>>)

bug5_join_arrays(t, h, new_idx, idx1, idx2, okT, okM) ==
    LET e1 == bug5_ensure_capacity(t, new_idx, okT)
        e2 == bug5_ensure_capacity(e1.arrays, idx1, okT)
        e3 == bug5_ensure_capacity(e2.arrays, idx2, okT)
        t1 == e3.arrays
    IN IF e1.fault # "none" THEN Crash(t, h, e1.fault)
       ELSE IF e2.fault # "none" THEN Crash(e1.arrays, h, e2.fault)
       ELSE IF e3.fault # "none" THEN Crash(e2.arrays, h, e3.fault)
       ELSE IF idx1 >= Len(t1) THEN Crash(t1, h, "table_oob")
       ELSE IF At(t1, idx1).allocated /\ idx2 >= Len(t1) THEN Crash(t1, h, "table_oob")
       ELSE IF ~At(t1, idx1).allocated \/ ~At(t1, idx2).allocated
        THEN Ret(t1, h, "rejected", "join_arrays: one or both arrays not allocated", <<>>)
       ELSE IF At(t1, idx1).size > SIZE_MAX - At(t1, idx2).size
        THEN Ret(t1, h, "rejected", "join_arrays: size overflow", <<>>)
       ELSE
        LET s1 == At(t1, idx1).size
            s2 == At(t1, idx2).size
            new_size == s1 + s2
            bytes == ToSize(new_size * SizeofInt)
            h1 == MallocOk(h, bytes)
            p == Len(h1)
            d1 == At(t1, idx1).data
            d2 == At(t1, idx2).data
            jf == JoinFault(h1, p, d1, s1, d2, s2)
            h2 == JoinCells(h1, p, d1, s1, d2, s2)
        IN IF ~CanAlloc(bytes, okM)
            THEN Ret(t1, h, "nomem", "join_arrays: malloc failed", <<>>)
           ELSE IF jf # "none" THEN Crash(t1, h1, jf)
           ELSE IF new_idx >= Len(t1) THEN Crash(t1, h2, "table_oob")
           ELSE IF At(t1, new_idx).allocated /\ FreeFault(h2, At(t1, new_idx).data) # "none"
            THEN Crash(t1, h2, FreeFault(h2, At(t1, new_idx).data))
           ELSE Ret(SetSlot(t1, new_idx, Slot(p, new_size, TRUE)),
                    IF At(t1, new_idx).allocated
                    THEN FreeBlock(h2, At(t1, new_idx).data) ELSE h2,
                    "ok", "", <<>>)

bug5_free_array(t, h, idx) ==
    IF idx < Len(t) /\ At(t, idx).allocated
    THEN IF FreeFault(h, At(t, idx).data) # "none"
         THEN Crash(t, h, FreeFault(h, At(t, idx).data))
         ELSE Ret(SetSlot(t, idx, EmptySlot), FreeBlock(h, At(t, idx).data), "ok", "", <<>>)
    ELSE Ret(t, h, "rejected", "free_array: array not allocated or invalid index", <<>>)

bug5_print_array(t, h, idx, start, end) ==
    IF idx >= Len(t) \/ ~At(t, idx).allocated
    THEN Ret(t, h, "rejected", "print_array: array not allocated", <<>>)
    ELSE IF start < 0 \/ end < start \/ ToSize(end) >= At(t, idx).size
    THEN Ret(t, h, "rejected", "print_array: invalid range", <<>>)
    ELSE IF AccessFault(h, At(t, idx).data, start, end, "oob_read") # "none"
    THEN Crash(t, h, AccessFault(h, At(t, idx).data, start, end, "oob_read"))
    ELSE Ret(t, h, "ok", "",
             [i \in 1..(end - start + 1) |-> h[At(t, idx).data].cells[start + i]])

bug5_compute_stat(t, h, idx) ==
    IF idx >= Len(t) \/ ~At(t, idx).allocated
    THEN Ret(t, h, "rejected", "compute_stat: array not allocated", <<>>)
    ELSE IF At(t, idx).size = 0
    THEN Ret(t, h, "rejected", "compute_stat: array is empty", <<>>)
    ELSE IF AccessFault(h, At(t, idx).data, 0, At(t, idx).size - 1, "oob_read") # "none"
    THEN Crash(t, h, AccessFault(h, At(t, idx).data, 0, At(t, idx).size - 1, "oob_read"))
    ELSE Ret(t, h, "ok", "",
             <<CDiv(ToLong(SumCells(Elems(t, h, idx), 1, At(t, idx).size)), At(t, idx).size)>>)

-----------------------------------------------------------------------------
(* The end-of-input cleanup of main: every slot flagged allocated is freed. *)

\* slots flagged allocated whose data is not a live block: freeing one of them
\* releases a block a second time
StaleSlots(t, h) ==
    {i \in 1..Len(t) : t[i].allocated /\ FreeFault(h, t[i].data) # "none"}

cleanup(t, h) ==
    IF StaleSlots(t, h) # {} THEN Crash(t, h, "double_free")
    ELSE Ret(t,
             [p \in 1..Len(h) |->
                IF \E i \in 1..Len(t) : t[i].allocated /\ t[i].data = p
                THEN FreedBlock ELSE h[p]],
             "ok", "", <<>>)

-----------------------------------------------------------------------------
(* The dispatch loop of main (bug5.cpp 213-261, bug6.c 254-292): one action  *)
(* per command line, its numeric arguments as strtol returned them.          *)

\* index tokens: -1 converts to the largest size_t
IdxArgs == {0, 1, -1}

\* size tokens of CREATE: negative, zero, small, and one whose byte count wraps
SizeArgs == {-1, 0, 2, 2^(SizeBits - 2)}

\* value tokens of FILL: one inside and one outside the range of int
FillArgs == {1, INT_MAX + 1}

\* <<offset, count>> tokens of SPLICE: empty, inside src, past its end,
\* negative, and two whose sum exceeds LONG_MAX
SpliceArgs == {<<0, 0>>, <<0, 1>>, <<1, 1>>, <<0, 3>>, <<-1, 1>>, <<0, -1>>,
               <<LONG_MAX, 1>>, <<1, LONG_MAX>>}

\* <<start, end>> tokens of PRINT: inside the array, reversed, negative, past its end
RangeArgs == {<<0, 0>>, <<0, 1>>, <<1, 0>>, <<-1, 0>>, <<0, 20>>}

ReallocOutcomes == {"ok", "fail", "zfree"}

NoCmd == [cmd |-> "none", args |-> <<0, 0, 0, 0>>, res |-> "ok", err |-> "", out |-> <<>>]

Cmd(c, a, r) == [cmd |-> c, args |-> a, res |-> r.res, err |-> r.err, out |-> r.out]

\* fgets / getline returned another line
HasLine == pc = "run" /\ ncmds < MaxCmds

\* the effect of one dispatched command whose handler returned r
Step(c, a, r) ==
    /\ arrays' = r.arrays
    /\ heap' = r.heap
    /\ fault' = r.fault
    /\ pc' = IF r.fault = "none" THEN "run" ELSE "crashed"
    /\ last' = Cmd(c, a, r)
    /\ ncmds' = ncmds + 1
    /\ UNCHANGED <<prog, nonarrvars>>

\* The outcomes the environment can choose for a command.  A choice that the
\* handler never consults (an allocation it does not attempt, an overflow
\* that cannot occur) is fixed, so that one run is not listed many times.

\* may the table allocation fail: only when one of the indices makes it grow
GrowChoices(S) ==
    IF \E i \in S : ToSize(i) >= Len(arrays) THEN BOOLEAN ELSE {TRUE}

\* is slot i of the table flagged allocated
Allocated(i) == ToSize(i) < Len(arrays) /\ At(arrays, ToSize(i)).allocated

\* the handlers reach their allocation only with every operand allocated
\* (growing the table adds empty slots only)
Operands(S) == \A i \in S : Allocated(i)

AllocChoices(S) == IF Operands(S) THEN BOOLEAN ELSE {TRUE}

ReallocChoices(S) == IF Operands(S) THEN ReallocOutcomes ELSE {"ok"}

TrapChoices(offset, count) ==
    IF offset >= 0 /\ count >= 0
       /\ (offset + count > LONG_MAX \/ count + MaxAllocBytes > LONG_MAX)
    THEN BOOLEAN ELSE {FALSE}

Create ==
    /\ HasLine
    /\ \E idx \in IdxArgs, n \in SizeArgs, okM \in BOOLEAN :
      \E okT \in GrowChoices({idx}) :
        \E r \in {IF prog = "bug5"
                  THEN bug5_create_array(arrays, heap, ToSize(idx), n, okT, okM)
                  ELSE bug6_create_array(arrays, heap, ToSize(idx), n, okT, okM)} :
            Step("CREATE", <<idx, n, 0, 0>>, r)

Fill ==
    /\ HasLine
    /\ \E idx \in IdxArgs, v \in FillArgs :
        \E r \in {IF prog = "bug5"
                  THEN bug5_fill_array(arrays, heap, ToSize(idx), v)
                  ELSE bug6_fill_array(arrays, heap, ToSize(idx), v)} :
            Step("FILL", <<idx, v, 0, 0>>, r)

Splice ==
    /\ HasLine
    /\ \E dest \in IdxArgs, src \in IdxArgs, oc \in SpliceArgs :
      \E okT \in (IF prog = "bug5" THEN GrowChoices({dest, src}) ELSE {TRUE}),
         trap \in TrapChoices(oc[1], oc[2]),
         ra \in ReallocChoices({dest, src}) :
        \E r \in {IF prog = "bug5"
                  THEN bug5_splice_array(arrays, heap, ToSize(dest), ToSize(src),
                                         oc[1], oc[2], okT, trap, ra)
                  ELSE bug6_splice_array(arrays, heap, ToSize(dest), ToSize(src),
                                         oc[1], oc[2], trap, ra)} :
            Step("SPLICE", <<dest, src, oc[1], oc[2]>>, r)

Join ==
    /\ HasLine
    /\ \E new_idx \in IdxArgs, idx1 \in IdxArgs, idx2 \in IdxArgs :
      \E okT \in GrowChoices({new_idx, idx1, idx2}), okM \in AllocChoices({idx1, idx2}) :
        \E r \in {IF prog = "bug5"
                  THEN bug5_join_arrays(arrays, heap, ToSize(new_idx), ToSize(idx1),
                                        ToSize(idx2), okT, okM)
                  ELSE bug6_join_arrays(arrays, heap, ToSize(new_idx), ToSize(idx1),
                                        ToSize(idx2), okT, okM)} :
            Step("JOIN", <<new_idx, idx1, idx2, 0>>, r)

Free ==
    /\ HasLine
    /\ \E idx \in IdxArgs :
        \E r \in {IF prog = "bug5"
                  THEN bug5_free_array(arrays, heap, ToSize(idx))
                  ELSE bug6_free_array(arrays, heap, ToSize(idx))} :
            Step("FREE", <<idx, 0, 0, 0>>, r)

PrintCmd ==
    /\ HasLine
    /\ \E idx \in IdxArgs, se \in RangeArgs :
        \E r \in {IF prog = "bug5"
                  THEN bug5_print_array(arrays, heap, ToSize(idx), se[1], se[2])
                  ELSE bug6_print_array(arrays, heap, ToSize(idx), se[1], se[2])} :
            Step("PRINT", <<idx, se[1], se[2], 0>>, r)

Stat ==
    /\ HasLine
    /\ \E idx \in IdxArgs :
        \E r \in {IF prog = "bug5"
                  THEN bug5_compute_stat(arrays, heap, ToSize(idx))
                  ELSE bug6_compute_stat(arrays, heap, ToSize(idx))} :
            Step("STAT", <<idx, 0, 0, 0>>, r)

\* The if-chain of main on the tokens of one line: tokens[1] is the command
\* word, the others are the argument tokens as sequences of characters.

\* a line on which main calls no handler
Ignored(t, h) == Ret(t, h, "ignored", "", <<>>)

\* the if-chain without its argument-count tests
bug6_dispatch_uncounted(t, h, tokens, okT, okM, trap, ra) ==
    LET count == Len(tokens)
        ARG_L(k) == IF k < count THEN strtol(tokens[k + 1]) ELSE 0
    IN  IF tokens[1] = "CREATE"
        THEN bug6_create_array(t, h, ToSize(ARG_L(1)), ARG_L(2), okT, okM)
        ELSE IF tokens[1] = "FILL"
        THEN bug6_fill_array(t, h, ToSize(ARG_L(1)), ARG_L(2))
        ELSE IF tokens[1] = "SPLICE"
        THEN bug6_splice_array(t, h, ToSize(ARG_L(1)), ToSize(ARG_L(2)),
                               ARG_L(3), ARG_L(4), trap, ra)
        ELSE IF tokens[1] = "JOIN"
        THEN bug6_join_arrays(t, h, ToSize(ARG_L(1)), ToSize(ARG_L(2)),
                              ToSize(ARG_L(3)), okT, okM)
        ELSE IF tokens[1] = "FREE"
        THEN bug6_free_array(t, h, ToSize(ARG_L(1)))
        ELSE IF tokens[1] = "STAT"
        THEN bug6_compute_stat(t, h, ToSize(ARG_L(1)))
        ELSE IF tokens[1] = "PRINT"
        THEN bug6_print_array(t, h, ToSize(ARG_L(1)), ARG_L(2), ARG_L(3))
        ELSE Ignored(t, h)

bug6_dispatch(t, h, tokens, okT, okM, trap, ra) ==
    LET count == Len(tokens)
        ARG_L(k) == IF k < count THEN strtol(tokens[k + 1]) ELSE 0
    IN  IF tokens[1] = "CREATE" /\ count > 2
        THEN bug6_create_array(t, h, ToSize(ARG_L(1)), ARG_L(2), okT, okM)
        ELSE IF tokens[1] = "FILL" /\ count > 2
        THEN bug6_fill_array(t, h, ToSize(ARG_L(1)), ARG_L(2))
        ELSE IF tokens[1] = "SPLICE" /\ count > 4
        THEN bug6_splice_array(t, h, ToSize(ARG_L(1)), ToSize(ARG_L(2)),
                               ARG_L(3), ARG_L(4), trap, ra)
        ELSE IF tokens[1] = "JOIN" /\ count > 3
        THEN bug6_join_arrays(t, h, ToSize(ARG_L(1)), ToSize(ARG_L(2)),
                              ToSize(ARG_L(3)), okT, okM)
        ELSE IF tokens[1] = "FREE" /\ count > 1
        THEN bug6_free_array(t, h, ToSize(ARG_L(1)))
        ELSE IF tokens[1] = "STAT" /\ count > 1
        THEN bug6_compute_stat(t, h, ToSize(ARG_L(1)))
        ELSE IF tokens[1] = "PRINT" /\ count > 3
        THEN bug6_print_array(t, h, ToSize(ARG_L(1)), ARG_L(2), ARG_L(3))
        ELSE Ignored(t, h)

bug5_dispatch(t, h, tokens, okT, okM, trap, ra) ==
    LET toL(k) == IF k >= Len(tokens) THEN 0 ELSE strtol(tokens[k + 1])
    IN  IF tokens[1] = "CREATE_ARRAY" /\ Len(tokens) > 2
        THEN bug5_create_array(t, h, ToSize(toL(1)), toL(2), okT, okM)
        ELSE IF tokens[1] = "FILL_ARRAY" /\ Len(tokens) > 2
        THEN bug5_fill_array(t, h, ToSize(toL(1)), toL(2))
        ELSE IF tokens[1] = "SPLICE_ARRAY" /\ Len(tokens) > 4
        THEN bug5_splice_array(t, h, ToSize(toL(1)), ToSize(toL(2)),
                               toL(3), toL(4), okT, trap, ra)
        ELSE IF tokens[1] = "JOIN_ARRAYS" /\ Len(tokens) > 3
        THEN bug5_join_arrays(t, h, ToSize(toL(1)), ToSize(toL(2)),
                              ToSize(toL(3)), okT, okM)
        ELSE IF tokens[1] = "FREE_ARRAY" /\ Len(tokens) > 1
        THEN bug5_free_array(t, h, ToSize(toL(1)))
        ELSE IF tokens[1] = "COMPUTE_STAT" /\ Len(tokens) > 1
        THEN bug5_compute_stat(t, h, ToSize(toL(1)))
        ELSE IF tokens[1] = "PRINT_ARRAY" /\ Len(tokens) > 3
        THEN bug5_print_array(t, h, ToSize(toL(1)), toL(2), toL(3))
        ELSE Ignored(t, h)

\* the command words of the two programs, in the order of the if-chain
Words(p) ==
    IF p = "bug5"
    THEN <<"CREATE_ARRAY", "FILL_ARRAY", "SPLICE_ARRAY", "JOIN_ARRAYS",
           "FREE_ARRAY", "COMPUTE_STAT", "PRINT_ARRAY">>
    ELSE <<"CREATE", "FILL", "SPLICE", "JOIN", "FREE", "STAT", "PRINT">>

\* lines that are not well-formed commands: an unknown word, a word of the
\* other case, each command one argument short, and commands whose index or
\* size is not a decimal number
TextLines(p) ==
    LET w == Words(p) IN
    {<<"HELP">>, <<"create", Dec(0), Dec(2)>>,
     <<w[1], Dec(0)>>, <<w[2], Dec(0)>>, <<w[3], Dec(0), Dec(0), Dec(0)>>,
     <<w[4], Dec(1), Dec(0)>>, <<w[5]>>, <<w[6]>>, <<w[7], Dec(0), Dec(0)>>,
     <<w[1], <<"x">>, Dec(10)>>, <<w[1], Dec(1), <<"x">>>>,
     <<w[1], <<"1", "x">>, Dec(2)>>, <<w[5], <<"x">>>>, <<w[6], <<"x">>>>}

\* may an allocation fail: only on a line that reaches create_array
LineChoices(tokens) ==
    IF tokens[1] = Words(prog)[1] /\ Len(tokens) > 2 THEN BOOLEAN ELSE {TRUE}

\* a line of text main tokenised
TextLine ==
    /\ HasLine
    /\ \E tokens \in TextLines(prog) :
      \E okT \in LineChoices(tokens), okM \in LineChoices(tokens) :
        \E r \in {IF prog = "bug5"
                  THEN bug5_dispatch(arrays, heap, tokens, okT, okM, FALSE, "ok")
                  ELSE bug6_dispatch(arrays, heap, tokens, okT, okM, FALSE, "ok")} :
            Step("LINE", tokens, r)

\* fgets / getline reports end of input: the cleanup loop runs and main returns
Eof ==
    /\ pc = "run"
    /\ \E r \in {cleanup(arrays, heap)} :
        /\ arrays' = r.arrays
        /\ heap' = r.heap
        /\ fault' = r.fault
        /\ pc' = IF r.fault = "none" THEN "done" ELSE "crashed"
        /\ last' = Cmd("EOF", <<0, 0, 0, 0>>, r)
        /\ UNCHANGED <<prog, ncmds, nonarrvars>>

\* the state of the programs that are not running
NoKV == pairs = <<>> /\ pair_count = 0 /\ pair_capacity = 0

NoLoad ==
    /\ users = <<>> /\ user_count = 0 /\ user_capacity = 0
    /\ books = <<>> /\ book_count = 0 /\ book_capacity = 0

NoConfig == entries = <<>> /\ paramPointers = <<>>

NoTables ==
    /\ iter = 0
    /\ doc_count = 0 /\ docs = <<>>
    /\ record_count = 0 /\ records = <<>>
    /\ node_count = 0 /\ edge_count = 0 /\ graphs = <<>>

NoFile == file = <<>> /\ fpos = 0 /\ NoTables

Init ==
    /\ prog \in {"bug5", "bug6"}
    /\ pc = "run"
    /\ arrays = <<>>
    /\ heap = <<>>
    /\ fault = "none"
    /\ last = NoCmd
    /\ ncmds = 0
    /\ NoKV
    /\ NoLoad
    /\ NoConfig
    /\ NoFile

Next == Create \/ Fill \/ Splice \/ Join \/ Free \/ Stat \/ PrintCmd \/ TextLine \/ Eof

Spec == Init /\ [][Next]_vars

-----------------------------------------------------------------------------
(* Properties of the array managers *)

\* the index, as size_t, the last command named first
LastIdx == ToSize(last.args[1])

\* a step that executed the command c
Ran(c) == last'.cmd = c /\ ncmds' = ncmds + 1

\* C1: no storage block is released twice and none is read or written after
\* it was released, whatever the commands and whichever allocations fail.
C1_NoDoubleFreeNoUseAfterFree == fault \notin {"double_free", "use_after_free"}

SpliceAccepted ==
    /\ Ran("SPLICE")
    /\ Allocated(last'.args[1]) /\ Allocated(last'.args[2])
    /\ last'.args[3] >= 0 /\ last'.args[4] >= 0
    /\ last'.args[3] + last'.args[4] <= At(arrays, ToSize(last'.args[2])).size

\* C20: an accepted SPLICE dest src offset count leaves dest equal to its
\* previous contents followed by src[offset .. offset+count-1], increases
\* dest.size by exactly count and leaves every other slot unchanged, also
\* when dest and src are the same index.
C20_SpliceAppends ==
    [][SpliceAccepted =>
        LET dest == ToSize(last'.args[1])
            src == ToSize(last'.args[2])
        IN  /\ fault' = "none" /\ last'.res = "ok"
            /\ At(arrays', dest).size = At(arrays, dest).size + last'.args[4]
            /\ Elems(arrays', heap', dest)
                 = Elems(arrays, heap, dest)
                     \o SubSeq(Elems(arrays, heap, src),
                               last'.args[3] + 1, last'.args[3] + last'.args[4])
            /\ Len(arrays') = Len(arrays)
            /\ \A i \in 0..(Len(arrays) - 1) :
                  (i # dest /\ At(arrays, i).allocated) =>
                      /\ At(arrays', i) = At(arrays, i)
                      /\ Elems(arrays', heap', i) = Elems(arrays, heap, i)]_vars

\* C16: the handle table grows only for an index up to a configured maximum;
\* a command naming an index above it fails with an index-out-of-range error
\* and the table stays bounded.  The index SIZE_MAX is above every maximum a
\* table can have, since no table has SIZE_MAX + 1 slots.
C16_IndexAboveMaximumRejected ==
    [][(Ran("CREATE") /\ ToSize(last'.args[1]) = SIZE_MAX)
        => (fault' = "none" /\ last'.err # "" /\ arrays' = arrays)]_vars

\* C7: a SPLICE is rejected or touches only src[0 .. size-1] and the storage
\* of dest, for every offset and count of a long.
C7_SpliceInBounds ==
    last.cmd = "SPLICE" => fault \notin {"oob_read", "oob_write"}

\* C8: a CREATE that succeeded leaves the slot with exactly `size` elements,
\* all of them 0 (and wrote nothing outside the storage it allocated).
C8_CreateExactZeroed ==
    last.cmd = "CREATE" =>
        /\ fault # "oob_write"
        /\ last.res = "ok" =>
            /\ At(arrays, LastIdx).size = last.args[2]
            /\ Elems(arrays, heap, LastIdx) = [i \in 1..last.args[2] |-> 0]

\* what PRINT idx 0 size-1 prints
PrintAll(t, h, idx) ==
    IF prog = "bug5" THEN bug5_print_array(t, h, idx, 0, At(t, idx).size - 1).out
    ELSE bug6_print_array(t, h, idx, 0, At(t, idx).size - 1).out

\* a FILL of the index the previous command created
FillAfterCreate ==
    /\ last.cmd = "CREATE" /\ last.res = "ok"
    /\ Ran("FILL") /\ last'.args[1] = last.args[1]

\* C9 as stated: after CREATE idx n and FILL idx v every element reads back v.
C9_FillRoundTrip ==
    [][FillAfterCreate =>
        /\ fault' = "none"
        /\ \A i \in 1..At(arrays', LastIdx).size :
              Elems(arrays', heap', LastIdx)[i] = last'.args[2]]_vars

\* C9 amended: after a CREATE idx n that succeeded, FILL idx v leaves the size
\* of the slot unchanged and every one of its elements equal to (int)v, which
\* is what PRINT idx 0 size-1 prints; (int)v is v reduced to the width of int.
C9_FillStoresInt ==
    [][FillAfterCreate =>
        /\ fault' = "none"
        /\ last'.res = "ok"
        /\ arrays' = arrays
        /\ Elems(arrays', heap', LastIdx)
             = [i \in 1..At(arrays, LastIdx).size |-> ToInt(last'.args[2])]
        /\ At(arrays, LastIdx).size > 0 =>
             PrintAll(arrays', heap', LastIdx)
               = [i \in 1..At(arrays, LastIdx).size |-> ToInt(last'.args[2])]]_vars

\* CREATE idx 2 then FILL idx v with v above INT_MAX: both elements hold (int)v
C9_Witness ==
    /\ ncmds = 2 /\ last.cmd = "FILL" /\ last.res = "ok"
    /\ last.args[2] > INT_MAX
    /\ At(arrays, LastIdx).size = 2
    /\ Elems(arrays, heap, LastIdx) = <<ToInt(last.args[2]), ToInt(last.args[2])>>

\* PRINT idx start end names elements of the slot at idx
InRange == /\ Allocated(last.args[1])
           /\ 0 <= last.args[2] /\ last.args[2] <= last.args[3]
           /\ last.args[3] < At(arrays, LastIdx).size

JoinAccepted ==
    /\ Ran("JOIN")
    /\ Allocated(last'.args[2]) /\ Allocated(last'.args[3])
    /\ last'.res # "nomem"

\* C21: JOIN new idx1 idx2 with idx1 and idx2 allocated leaves slot `new`
\* holding the elements of idx1 followed by those of idx2, with size =
\* size(idx1) + size(idx2), also when `new` is idx1 or idx2, and releases the
\* storage `new` held before exactly once.
C21_JoinConcatenates ==
    [][JoinAccepted =>
        LET new == ToSize(last'.args[1])
            idx1 == ToSize(last'.args[2])
            idx2 == ToSize(last'.args[3])
        IN  /\ fault' = "none" /\ last'.res = "ok"
            /\ At(arrays', new).allocated
            /\ At(arrays', new).size = At(arrays, idx1).size + At(arrays, idx2).size
            /\ Elems(arrays', heap', new)
                 = Elems(arrays, heap, idx1) \o Elems(arrays, heap, idx2)
            /\ Allocated(last'.args[1]) =>
                  /\ IsLive(heap, At(arrays, new).data)
                  /\ ~IsLive(heap', At(arrays, new).data)]_vars

\* C27: after any sequence of commands, with any allocation allowed to fail,
\* every slot flagged allocated has data referring to a live storage block
\* with room for at least `size` elements, and every slot not flagged
\* allocated has size 0 and owns no storage.
C27_SlotsOwnTheirStorage ==
    pc = "run" =>
        \A i \in 1..Len(arrays) :
            IF arrays[i].allocated
            THEN IsLive(heap, arrays[i].data)
                   /\ Cap(heap, arrays[i].data) >= arrays[i].size
            ELSE arrays[i].size = 0 /\ arrays[i].data = NULL

\* the table ensure_capacity(idx) leaves, from the table of the current state
EnsureCapacity(idx, ok) ==
    IF prog = "bug5" THEN bug5_ensure_capacity(arrays, idx, ok)
    ELSE bug6_ensure_capacity(arrays, idx, ok)

\* C29: ensure_capacity(idx) never reduces the number of slots and never
\* changes an existing slot, and the operation that follows it accesses slot
\* idx only when idx is below the table size; for every index, SIZE_MAX
\* (token -1) included.
C29_EnsureCapacityKeepsTable ==
    [][Ran("CREATE") =>
        LET idx == ToSize(last'.args[1]) IN
        /\ \A ok \in GrowChoices({idx}) :
            LET ec == EnsureCapacity(idx, ok) IN
            /\ Len(ec.arrays) >= Len(arrays)
            /\ SubSeq(ec.arrays, 1, Len(arrays)) = arrays
        /\ fault' # "table_oob"
        /\ \A k \in 1..Len(arrays) :
              (k # idx + 1) => (k <= Len(arrays') /\ arrays'[k] = arrays[k])]_vars

\* C30: a SPLICE_ARRAY or JOIN_ARRAYS that bug5 rejects (operand not
\* allocated, invalid offset/count, size overflow, allocation failure) leaves
\* the handle table unchanged, its number of slots included.
C30_RejectedLeavesTable ==
    [][(/\ prog = "bug5"
        /\ Ran("SPLICE") \/ Ran("JOIN")
        /\ last'.res \in {"rejected", "nomem"}) => arrays' = arrays]_vars

-----------------------------------------------------------------------------
(* The key-value store, bug7.c *)

SizeofKv == 16
FirstCapacity == 4
RemoveProbe == 10

\* keys and values of the SET and REMOVE lines
Keys == {"a", "b"}
Values == {"", "x", "xyz"}

\* a char pointer: NULL, or a heap copy of a string
NullStr == [null |-> TRUE, str |-> ""]
Str(s) == [null |-> FALSE, str |-> s]
strdup(s, ok) == IF ok THEN Str(s) ELSE NullStr

EmptyPair == [key |-> NullStr, value |-> NullStr]

KvRet(p, n, c, out) ==
    [pairs |-> p, pair_count |-> n, pair_capacity |-> c,
     fault |-> "none", res |-> "ok", err |-> "", out |-> out]

KvCrash(p, n, c, f) ==
    [pairs |-> p, pair_count |-> n, pair_capacity |-> c,
     fault |-> f, res |-> "crash", err |-> "", out |-> <<>>]

\* ok: the realloc succeeds if it is attempted
bug7_ensure_capacity(p, n, c, ok) ==
    IF n >= c
    THEN LET new_capacity == IF c = 0 THEN FirstCapacity ELSE ToSize(c * 2)
         IN  IF ~CanAlloc(ToSize(new_capacity * SizeofKv), ok)
             THEN [pairs |-> p, pair_capacity |-> c]
             ELSE [pairs |-> [i \in 1..new_capacity |->
                                IF i <= c THEN p[i] ELSE EmptyPair],
                   pair_capacity |-> new_capacity]
    ELSE [pairs |-> p, pair_capacity |-> c]

\* indices i < n whose key is key
Matches(p, n, key) ==
    {i \in 0..(n - 1) : ~p[i + 1].key.null /\ p[i + 1].key.str = key}

\* the first of them, or (size_t)-1
Find(p, n, key) ==
    IF Matches(p, n, key) = {} THEN SIZE_MAX
    ELSE CHOOSE i \in Matches(p, n, key) : \A j \in Matches(p, n, key) : i <= j

free_pair(p, i) == [p EXCEPT ![i + 1] = EmptyPair]

\* okT, okK, okV: the realloc of the array and the strdup of the key and of
\* the value succeed
set_pair(p, n, c, key, value, okT, okK, okV) ==
    LET found == Find(p, n, key) IN
    IF found # SIZE_MAX
    THEN IF okV
         THEN KvRet([p EXCEPT ![found + 1].value = Str(value)], n, c, <<>>)
         ELSE KvRet(p, n, c, <<>>)
    ELSE LET g == bug7_ensure_capacity(p, n, c, okT) IN
         IF n < g.pair_capacity
         THEN KvRet([g.pairs EXCEPT ![n + 1] =
                        [key |-> strdup(key, okK), value |-> strdup(value, okV)]],
                    n + 1, g.pair_capacity, <<>>)
         ELSE KvRet(g.pairs, n, g.pair_capacity, <<>>)

remove_key(p, n, c, key) ==
    LET found == Find(p, n, key) IN
    IF found = SIZE_MAX
    THEN IF n > 0 /\ n + RemoveProbe >= c
         THEN KvCrash(p, n, c, "oob_read")
         ELSE KvRet(p, n, c, <<>>)
    ELSE LET p1 == free_pair(p, found)
             p2 == IF found # n - 1 /\ n > 0
                   THEN [p1 EXCEPT ![found + 1] = p1[n], ![n] = EmptyPair]
                   ELSE p1
         IN  KvRet(p2, IF n > 0 THEN n - 1 ELSE n, c, <<>>)

RECURSIVE TotalLength(_, _)
TotalLength(p, n) ==
    IF n = 0 THEN 0
    ELSE TotalLength(p, n - 1) + (IF p[n].value.null THEN 0 ELSE Len(p[n].value.str))

compute_stats(p, n, c) ==
    IF n = 0
    THEN KvCrash(p, n, c, "div_by_zero")
    ELSE KvRet(p, n, c, <<TotalLength(p, n) \div n>>)

RECURSIVE DumpLines(_, _)
DumpLines(p, n) ==
    IF n = 0 THEN <<>>
    ELSE DumpLines(p, n - 1) \o
         (IF ~p[n].key.null /\ ~p[n].value.null
          THEN <<p[n].key.str \o "=" \o p[n].value.str>> ELSE <<>>)

dump(p, n, c) == KvRet(p, n, c, DumpLines(p, n))

\* the cleanup of main: every pair in use is released, then the array
kv_cleanup(p, n, c) == KvRet(<<>>, n, c, <<>>)

KvStep(c, a, r) ==
    /\ pairs' = r.pairs
    /\ pair_count' = r.pair_count
    /\ pair_capacity' = r.pair_capacity
    /\ fault' = r.fault
    /\ pc' = IF r.fault = "none" THEN "run" ELSE "crashed"
    /\ last' = Cmd(c, a, r)
    /\ ncmds' = ncmds + 1
    /\ UNCHANGED <<prog, arrays, heap, loadvars, filevars, cfgvars>>

\* may the realloc of the pairs array fail: only when set_pair attempts it
KvGrowChoices(key) ==
    IF Find(pairs, pair_count, key) = SIZE_MAX /\ pair_count >= pair_capacity
    THEN BOOLEAN ELSE {TRUE}

\* may the strdup of the key fail: only when the key is new and is stored
KvKeyChoices(key, okT) ==
    IF Find(pairs, pair_count, key) = SIZE_MAX
       /\ pair_count < bug7_ensure_capacity(pairs, pair_count, pair_capacity, okT).pair_capacity
    THEN BOOLEAN ELSE {TRUE}

Set ==
    /\ HasLine
    /\ \E key \in Keys, value \in Values, okV \in BOOLEAN :
      \E okT \in KvGrowChoices(key) :
        \E okK \in KvKeyChoices(key, okT) :
          \E r \in {set_pair(pairs, pair_count, pair_capacity, key, value, okT, okK, okV)} :
            KvStep("SET", <<key, value>>, r)

Remove ==
    /\ HasLine
    /\ \E key \in Keys :
        \E r \in {remove_key(pairs, pair_count, pair_capacity, key)} :
            KvStep("REMOVE", <<key, "">>, r)

Compute ==
    /\ HasLine
    /\ \E r \in {compute_stats(pairs, pair_count, pair_capacity)} :
        KvStep("COMPUTE", <<"", "">>, r)

Dump ==
    /\ HasLine
    /\ \E r \in {dump(pairs, pair_count, pair_capacity)} :
        KvStep("DUMP", <<"", "">>, r)

\* The lines on which the if-chain of main calls no handler: tokens[1] is
\* the word strtok returned, tokens[2] the rest of the line when there is one.
\* SET needs a rest that holds '=', REMOVE needs a rest, every word other
\* than SET, REMOVE, COMPUTE and DUMP does nothing.
bug7_falls_through(tokens) ==
    IF tokens[1] = "SET"
    THEN IF Len(tokens) < 2 THEN TRUE
         ELSE \A k \in 1..Len(tokens[2]) : tokens[2][k] # "="
    ELSE IF tokens[1] = "REMOVE" THEN Len(tokens) < 2
    ELSE tokens[1] \notin {"COMPUTE", "DUMP"}

\* lines that are not well-formed commands
KvTextLines ==
    {<<"HELP">>, <<"set", <<"a", "=", "x">>>>, <<"SET">>, <<"SET", <<"a">>>>,
     <<"SET", <<"a", " ", "x">>>>, <<"REMOVE">>, <<"GET", <<"a">>>>}

KvOtherLine ==
    /\ HasLine
    /\ \E tokens \in KvTextLines :
        /\ bug7_falls_through(tokens)
        /\ KvStep("LINE", tokens, KvRet(pairs, pair_count, pair_capacity, <<>>))

\* fgets reports end of input: the cleanup loop runs and main returns 0
EofKV ==
    /\ pc = "run"
    /\ \E r \in {kv_cleanup(pairs, pair_count, pair_capacity)} :
        /\ pairs' = r.pairs
        /\ pc' = "done"
        /\ last' = Cmd("EOF", <<"", "">>, r)
        /\ UNCHANGED <<prog, arrays, heap, fault, ncmds, pair_count, pair_capacity,
                       loadvars, filevars, cfgvars>>

InitKV ==
    /\ prog = "bug7"
    /\ pc = "run"
    /\ arrays = <<>>
    /\ heap = <<>>
    /\ fault = "none"
    /\ last = [NoCmd EXCEPT !.args = <<"", "">>]
    /\ ncmds = 0
    /\ NoKV
    /\ NoLoad
    /\ NoConfig
    /\ NoFile

NextKV == Set \/ Remove \/ Compute \/ Dump \/ KvOtherLine \/ EofKV

SpecKV == InitKV /\ [][NextKV]_vars

-----------------------------------------------------------------------------
(* Properties of the key-value store *)

\* C3: a COMPUTE executed while no pair is stored reports an explicit
\* no-data result and never evaluates a division by pair_count = 0
C3_ComputeNoData ==
    last.cmd = "COMPUTE" /\ pair_count = 0
        => fault # "div_by_zero" /\ last.res = "nodata"

\* the keys the store holds: those of the pairs in use
StoredKeys(p, n) == {p[i].key.str : i \in {j \in 1..n : ~p[j].key.null}}

\* the value the store holds for a key it stores
ValueOf(p, n, key) == p[Find(p, n, key) + 1].value

\* C22: after any sequence of SET and REMOVE commands the store holds at most
\* one pair per key, each stored key maps to the value of the most recent SET
\* of that key that no REMOVE of it followed, and pair_count is the number of
\* keys stored, at most pair_capacity.  Stated step by step: SET key=value
\* makes key map to value, REMOVE key makes key absent, and either leaves the
\* other keys and their values as they were.
C22_StoreIsMap ==
    [][(Ran("SET") \/ Ran("REMOVE")) =>
        LET key == last'.args[1]
            was == StoredKeys(pairs, pair_count)
            now == StoredKeys(pairs', pair_count')
        IN  /\ \A i, j \in 1..pair_count' :
                  (~pairs'[i].key.null /\ pairs'[i].key = pairs'[j].key) => i = j
            /\ pair_count' = Cardinality(now)
            /\ pair_count' <= pair_capacity'
            /\ now = IF last'.cmd = "SET" THEN was \cup {key} ELSE was \ {key}
            /\ last'.cmd = "SET" => ValueOf(pairs', pair_count', key) = Str(last'.args[2])
            /\ \A k \in now \ {key} :
                  ValueOf(pairs', pair_count', k) = ValueOf(pairs, pair_count, k)]_vars

\* C24: REMOVE of a key that is not stored leaves pairs, pair_count and
\* pair_capacity unchanged and reads no element of the pairs array at an
\* index >= pair_capacity.
C24_RemoveAbsentKey ==
    [][(Ran("REMOVE") /\ Find(pairs, pair_count, last'.args[1]) = SIZE_MAX)
        => (UNCHANGED kvvars /\ fault' # "oob_read")]_vars

-----------------------------------------------------------------------------
(* The line-oriented loaders, bug2.c (users) and bug3.c (books) *)

NFields == 3
LoadFirstCapacity == 2
SizeofEntry == 24
MAX_LINE == 1024

\* a line is a sequence of characters, without its newline: digits, blanks
\* and the delimiter of the program
LineChars(delim) == {"1", " ", delim}

RECURSIVE SeqsUpTo(_, _)
SeqsUpTo(S, n) ==
    IF n = 0 THEN {<<>>}
    ELSE LET shorter == SeqsUpTo(S, n - 1)
         IN  shorter \cup {Append(l, ch) : l \in {x \in shorter : Len(x) = n - 1}, ch \in S}

\* a line that does not fit the buffer of main: MAX_LINE - 1 characters that
\* make three fields, followed by five more that make three fields
LongLine(delim) ==
    [k \in 1..(MAX_LINE - 5) |-> "1"] \o <<delim, "1", delim, "1">>
        \o <<"1", delim, "1", delim, "1">>

Bug2Lines == SeqsUpTo(LineChars(","), MaxLineLen) \cup {LongLine(",")}
Bug3Lines == SeqsUpTo(LineChars("|"), MaxLineLen) \cup {LongLine("|")}

\* what the successive calls fgets(line, MAX_LINE, in) deliver of one input
\* line: pieces of at most MAX_LINE - 1 characters, the last one ending with
\* the newline, which main replaces by the terminator
fgets(l) ==
    LET text == Append(l, "\n")
        size == MAX_LINE - 1
    IN  [k \in 1..((Len(text) + size - 1) \div size) |->
            SubSeq(text, (k - 1) * size + 1, Min(k * size, Len(text) - 1))]

\* the length of the longest prefix of s that has no delim
TokenLen(s, delim) ==
    IF \A k \in 1..Len(s) : s[k] # delim THEN Len(s)
    ELSE (CHOOSE k \in 1..Len(s) : s[k] = delim /\ \A m \in 1..(k - 1) : s[m] # delim) - 1

\* the tokens successive calls of strtok_r return
RECURSIVE strtok_r(_, _)
strtok_r(s, delim) ==
    IF s = <<>> THEN <<>>
    ELSE IF Head(s) = delim THEN strtok_r(Tail(s), delim)
    ELSE LET n == TokenLen(s, delim)
         IN  <<SubSeq(s, 1, n)>> \o strtok_r(SubSeq(s, n + 1, Len(s)), delim)

\* the three trimmed fields of a line, or <<>> for a line with fewer fields
ParseFields(line, delim) ==
    LET tokens == strtok_r(line, delim)
    IN  IF Len(tokens) < NFields THEN <<>>
        ELSE [j \in 1..NFields |-> Trim(tokens[j])]

LoadRet(t, n, c) == [table |-> t, count |-> n, capacity |-> c]

\* add_user and add_book: ok says whether the realloc succeeds if attempted.
\* The two strdup calls are taken to succeed; the strings they copy are
\* stored as they are.
AddRecord(t, n, c, rec, ok) ==
    LET new_capacity == IF c = 0 THEN LoadFirstCapacity ELSE ToInt(c * 2)
        grow == n >= c
    IN  IF grow /\ ~CanAlloc(ToSize(new_capacity * SizeofEntry), ok)
        THEN LoadRet(t, n, c)
        ELSE LoadRet(Append(t, rec), n + 1, IF grow THEN new_capacity ELSE c)

add_user(t, n, c, name, age, email, ok) ==
    AddRecord(t, n, c, [name |-> name, age |-> age, email |-> email], ok)

add_book(t, n, c, title, author, year, ok) ==
    AddRecord(t, n, c, [title |-> title, author |-> author, year |-> year], ok)

bug2_parse_line(t, n, c, line, ok) ==
    LET fields == ParseFields(line, ",")
    IN  IF fields = <<>> THEN LoadRet(t, n, c)
        ELSE add_user(t, n, c, fields[1], atoi(fields[2]), fields[3], ok)

bug3_parse_line(t, n, c, line, ok) ==
    LET fields == ParseFields(line, "|")
    IN  IF fields = <<>> THEN LoadRet(t, n, c)
        ELSE add_book(t, n, c, fields[1], fields[2], atoi(fields[3]), ok)

\* the loop of main over the pieces of one input line
RECURSIVE bug2_read_line(_, _, _, _, _)
bug2_read_line(t, n, c, pieces, ok) ==
    IF pieces = <<>> THEN LoadRet(t, n, c)
    ELSE LET r == bug2_parse_line(t, n, c, Head(pieces), ok)
         IN  bug2_read_line(r.table, r.count, r.capacity, Tail(pieces), ok)

RECURSIVE bug3_read_line(_, _, _, _, _)
bug3_read_line(t, n, c, pieces, ok) ==
    IF pieces = <<>> THEN LoadRet(t, n, c)
    ELSE LET r == bug3_parse_line(t, n, c, Head(pieces), ok)
         IN  bug3_read_line(r.table, r.count, r.capacity, Tail(pieces), ok)

RECURSIVE total_age(_, _)
total_age(t, n) == IF n = 0 THEN 0 ELSE ToLong(total_age(t, n - 1) + t[n].age)

RECURSIVE total_year(_, _)
total_year(t, n) == IF n = 0 THEN 0 ELSE ToLong(total_year(t, n - 1) + t[n].year)

\* the statistics main prints after the last line: the count, the average
\* and the first record
bug2_stats(t, n) ==
    IF n = 0 THEN [fault |-> "div_by_zero", res |-> "crash", err |-> "", out |-> <<>>]
    ELSE [fault |-> "none", res |-> "ok", err |-> "",
          out |-> <<n, CDiv(total_age(t, n), n), t[1]>>]

bug3_stats(t, n) ==
    IF n = 0 THEN [fault |-> "div_by_zero", res |-> "crash", err |-> "", out |-> <<>>]
    ELSE [fault |-> "none", res |-> "ok", err |-> "",
          out |-> <<n, CDiv(total_year(t, n), n), t[1]>>]

\* may the realloc fail: only when the table is full
LoadGrowChoices(n, c) == IF n >= c THEN BOOLEAN ELSE {TRUE}

\* last.args holds the three fields of the input line, <<>> when it has fewer
LoadLine(line, delim) ==
    /\ pc' = "run"
    /\ last' = [cmd |-> "LINE", args |-> ParseFields(line, delim), res |-> "ok",
                err |-> "", out |-> <<>>]
    /\ ncmds' = ncmds + 1
    /\ UNCHANGED <<prog, arrays, heap, fault, kvvars, filevars, cfgvars>>

ReadUserLine ==
    /\ prog = "bug2" /\ pc = "run" /\ ncmds < MaxLines
    /\ \E line \in Bug2Lines, ok \in LoadGrowChoices(user_count, user_capacity) :
        \E r \in {bug2_read_line(users, user_count, user_capacity, fgets(line), ok)} :
            /\ users' = r.table
            /\ user_count' = r.count
            /\ user_capacity' = r.capacity
            /\ LoadLine(line, ",")
            /\ UNCHANGED <<books, book_count, book_capacity>>

ReadBookLine ==
    /\ prog = "bug3" /\ pc = "run" /\ ncmds < MaxLines
    /\ \E line \in Bug3Lines, ok \in LoadGrowChoices(book_count, book_capacity) :
        \E r \in {bug3_read_line(books, book_count, book_capacity, fgets(line), ok)} :
            /\ books' = r.table
            /\ book_count' = r.count
            /\ book_capacity' = r.capacity
            /\ LoadLine(line, "|")
            /\ UNCHANGED <<users, user_count, user_capacity>>

\* fgets reports end of input: main prints the statistics, releases the
\* records and returns 0
EofLoad ==
    /\ prog \in {"bug2", "bug3"} /\ pc = "run"
    /\ \E r \in {IF prog = "bug2" THEN bug2_stats(users, user_count)
                 ELSE bug3_stats(books, book_count)} :
        /\ fault' = r.fault
        /\ pc' = IF r.fault = "none" THEN "done" ELSE "crashed"
        /\ last' = [cmd |-> "EOF", args |-> <<>>, res |-> r.res, err |-> r.err,
                    out |-> r.out]
        /\ UNCHANGED <<prog, arrays, heap, ncmds, kvvars, loadvars, filevars, cfgvars>>

InitLoad ==
    /\ prog \in {"bug2", "bug3"}
    /\ pc = "run"
    /\ arrays = <<>>
    /\ heap = <<>>
    /\ fault = "none"
    /\ last = [NoCmd EXCEPT !.args = <<>>]
    /\ ncmds = 0
    /\ NoKV
    /\ NoLoad
    /\ NoConfig
    /\ NoFile

NextLoad == ReadUserLine \/ ReadBookLine \/ EofLoad

SpecLoad == InitLoad /\ [][NextLoad]_vars

-----------------------------------------------------------------------------
(* Properties of the loaders *)

\* the number of records loaded
LoadedCount == IF prog = "bug2" THEN user_count ELSE book_count

\* C5: when the input is empty or has no line with three fields, the loader
\* reports an empty aggregate: it does not divide by the record count 0 and
\* does not read element 0 of the record array
C5_EmptyAggregate ==
    last.cmd = "EOF" /\ LoadedCount = 0
        => fault = "none" /\ last.res = "empty"

\* the records loaded, and the number of records the array has room for
Loaded == IF prog = "bug2" THEN users ELSE books
LoadCapacity == IF prog = "bug2" THEN user_capacity ELSE book_capacity

\* the record the program builds from the three fields of a line
RecordOf(fields) ==
    IF prog = "bug2"
    THEN [name |-> fields[1], age |-> atoi(fields[2]), email |-> fields[3]]
    ELSE [title |-> fields[1], author |-> fields[2], year |-> atoi(fields[3])]

\* the step read a line during which the realloc of the array was refused
ReallocRefused ==
    /\ last'.args # <<>>
    /\ LoadedCount >= LoadCapacity
    /\ LoadCapacity' = LoadCapacity

\* C26: in bug2 and bug3, when no allocation fails, the number of loaded
\* records equals the number of input lines that split into at least three
\* non-empty delimiter-separated fields, the records are stored in input
\* order, count never exceeds capacity, and the record printed as first is the
\* one built from the first such line.  Stated step by step: a line with three
\* fields appends its record to the array, any other line changes nothing,
\* and the statistics print the number of records and the first of them.
C26_OneRecordPerLine ==
    [][/\ (Ran("LINE") /\ ~ReallocRefused) =>
              /\ Loaded' = IF last'.args = <<>> THEN Loaded
                           ELSE Append(Loaded, RecordOf(last'.args))
              /\ LoadedCount' = Len(Loaded')
              /\ LoadedCount' <= LoadCapacity'
       /\ (last'.cmd = "EOF" /\ pc = "run" /\ LoadedCount > 0) =>
              last'.out[1] = LoadedCount /\ last'.out[3] = Loaded[1]]_vars

-----------------------------------------------------------------------------
(* The binary file parsers: input files and fread *)

\* The counts and lengths of these programs are uint32_t values read from
\* the file and keep their true width: a file of small bytes holds no value
\* whose products with the structure sizes exceed a word.

SizeofDocument == 16
SizeofRecord == 16
SizeofField == 16
SizeofAdjList == 24
SizeofU32 == 4
EdgeFirstCapacity == 4
DocPrintMax == 100
FieldPrintMax == 50

\* the 32-bit words the input files are made of
WordVals == {0, 1, 2}

\* a word as fread delivers it from a little-endian file
LE32(w) == <<w % 256, (w \div 256) % 256, (w \div 65536) % 256, w \div 16777216>>

RECURSIVE Encode(_)
Encode(ws) == IF ws = <<>> THEN <<>> ELSE LE32(Head(ws)) \o Encode(Tail(ws))

\* the input files: up to MaxWords words, cut at any byte
Files ==
    UNION {{SubSeq(Encode(ws), 1, n) : n \in 0..(4 * Len(ws))} :
            ws \in SeqsUpTo(WordVals, MaxWords)}

Avail(f, pos) == Len(f) - pos

\* fread(&x, 4, 1, f): whether a whole word was read, its value, the new position
Fread4(f, pos) ==
    IF Avail(f, pos) >= 4
    THEN [ok |-> TRUE, pos |-> pos + 4,
          val |-> f[pos + 1] + 256 * f[pos + 2] + 65536 * f[pos + 3]
                  + 16777216 * f[pos + 4]]
    ELSE [ok |-> FALSE, pos |-> Len(f), val |-> 0]

\* fread(buf, 1, n, f): the bytes delivered, at most n, and the new position
FreadBytes(f, pos, n) ==
    [data |-> SubSeq(f, pos + 1, pos + Min(n, Avail(f, pos))),
     pos |-> pos + Min(n, Avail(f, pos))]

\* fwrite(data, 1, to_print, stdout) from a buffer of which only Len(data)
\* bytes were ever written: the bytes printed, and how many more bytes of
\* indeterminate content follow them
Fwrite(data, to_print) ==
    [bytes |-> SubSeq(data, 1, Min(to_print, Len(data))),
     indeterminate |-> to_print - Min(to_print, Len(data))]

FileRet(res, out) == [fault |-> "none", res |-> res, err |-> "", out |-> out]
FileCrash(f) == [fault |-> f, res |-> "crash", err |-> "", out |-> <<>>]

\* The FILE object of the input file: fopen returned it before the first
\* step, as the first block of the heap, and fclose releases it.  Of the
\* other blocks the model keeps those of bug8 and bug10; the lists of bug9
\* are kept by value in `graphs`.
FileHandle == 1

fclose(h) == FreeBlock(h, FileHandle)

\* malloc(bytes) in the file parsers: the new heap and the pointer returned.
\* A request of 0 bytes returns a block of no bytes or NULL.
Malloc(h, bytes, ok) ==
    IF CanAlloc(bytes, ok) THEN [heap |-> Append(h, Block(bytes, <<>>)), p |-> Len(h) + 1]
    ELSE [heap |-> h, p |-> NULL]

\* free(p) for every p of the set P, no two of them equal
Release(h, P) == [p \in 1..Len(h) |-> IF p \in P THEN FreedBlock ELSE h[p]]

\* one step of a file parser that leaves it at position p of the file and at
\* place where of main, with the blocks h, and reports r
FileStep(c, p, where, r, h) ==
    /\ fpos' = p
    /\ heap' = h
    /\ fault' = r.fault
    /\ pc' = IF r.fault = "none" THEN where ELSE "crashed"
    /\ last' = [cmd |-> c, args |-> <<>>, res |-> r.res, err |-> r.err, out |-> r.out]
    /\ UNCHANGED <<prog, arrays, ncmds, file, kvvars, loadvars, cfgvars>>

-----------------------------------------------------------------------------
(* The document reader, bug8.c *)

\* data holds the payload bytes fread stored, buf is the block they are in
NoDoc == [data |-> <<>>, buf |-> NULL, length |-> 0, allocated |-> 0]

\* the header: the document count and the docs array
Header8 ==
    /\ prog = "bug8" /\ pc = "header"
    /\ \E ok \in BOOLEAN, h \in {Fread4(file, fpos)} :
        IF ~h.ok
        THEN /\ FileStep("HEADER", h.pos, "done", FileRet("ok", <<>>), fclose(heap))
             /\ UNCHANGED <<iter, doc_count, docs>>
        ELSE \E m \in {Malloc(heap, h.val * SizeofDocument, ok)} :
             /\ doc_count' = h.val
             /\ iter' = 0
             /\ IF m.p = NULL /\ h.val > 0
                THEN /\ docs' = docs
                     /\ FileStep("HEADER", h.pos, "done", FileRet("ok", <<>>), fclose(heap))
                ELSE /\ docs' = [k \in 1..h.val |-> NoDoc]
                     /\ FileStep("HEADER", h.pos, "loop", FileRet("ok", <<>>), m.heap)
    /\ UNCHANGED <<record_count, records, node_count, edge_count, graphs>>

\* one iteration of the reading loop: a length word and the payload
ReadDoc ==
    /\ prog = "bug8" /\ pc = "loop" /\ iter < doc_count
    /\ \E ok \in BOOLEAN, h \in {Fread4(file, fpos)} :
        IF ~h.ok \/ (~CanAlloc(h.val, ok) /\ h.val > 0)
        THEN /\ FileStep("DOC", h.pos, "stats", FileRet("ok", <<>>), heap)
             /\ UNCHANGED <<iter, docs>>
        ELSE \E m \in {Malloc(heap, h.val, ok)}, b \in {FreadBytes(file, h.pos, h.val)} :
             /\ docs' = [docs EXCEPT ![iter + 1] =
                            [data |-> b.data, buf |-> m.p, length |-> h.val,
                             allocated |-> 1]]
             /\ iter' = iter + 1
             /\ FileStep("DOC", b.pos, "loop", FileRet("ok", <<>>), m.heap)
    /\ UNCHANGED <<doc_count, record_count, records, node_count, edge_count, graphs>>

\* the indices of the allocated documents
AllocatedDocs(d) == {k \in 1..Len(d) : d[k].allocated = 1}

FirstOf(S) == CHOOSE k \in S : \A m \in S : k <= m

\* the average length and the first document, as main prints them
bug8_stats(d) ==
    LET actual_count == Cardinality(AllocatedDocs(d))
        total_len == SumOver([k \in 1..Len(d) |->
                                 IF d[k].allocated = 1 THEN d[k].length ELSE 0], Len(d))
    IN  IF actual_count = 0 THEN FileCrash("div_by_zero")
        ELSE LET first == d[FirstOf(AllocatedDocs(d))]
             IN  FileRet("ok", <<total_len \div actual_count,
                                 Fwrite(first.data, Min(first.length, DocPrintMax))>>)

\* the blocks the final loop of main frees, and the docs array itself: the
\* array is the first block malloc returned after fopen (it is NULL only for
\* a count of 0, and then there is no other block)
bug8_freed(d) ==
    {d[k].buf : k \in AllocatedDocs(d)} \cup {FileHandle + 1}

\* the loop has ended: the file is closed, the statistics are printed,
\* everything is released
Stats8 ==
    /\ prog = "bug8"
    /\ pc = "stats" \/ (pc = "loop" /\ iter >= doc_count)
    /\ \E r \in {bug8_stats(docs)} :
        FileStep("STATS", fpos, "done", r,
                 IF r.fault = "none" THEN Release(fclose(heap), bug8_freed(docs))
                 ELSE fclose(heap))
    /\ UNCHANGED <<iter, doc_count, docs, record_count, records,
                   node_count, edge_count, graphs>>

-----------------------------------------------------------------------------
(* The record reader, bug10.c *)

\* buf is the block that holds the payload of a field, mem the block that
\* holds the fields array of a record
NoField == [data |-> <<>>, buf |-> NULL, length |-> 0, allocated |-> 0]
NoRecord == [fields |-> <<>>, mem |-> NULL, field_count |-> 0, allocated |-> 0]

\* which malloc of a field buffer fails: that of field failAt, or none (-1)
FailChoices == {-1} \cup 0..(MaxWords - 1)

\* the loop over the fields of one record, from field j on
RECURSIVE ReadFields(_, _, _, _, _, _, _)
ReadFields(f, pos, j, field_count, fields, failAt, hp) ==
    IF j >= field_count THEN [all_ok |-> 1, pos |-> pos, fields |-> fields, heap |-> hp]
    ELSE LET h == Fread4(f, pos) IN
         IF ~h.ok \/ (~CanAlloc(h.val, j # failAt) /\ h.val > 0)
         THEN [all_ok |-> 0, pos |-> h.pos, fields |-> fields, heap |-> hp]
         ELSE LET b == FreadBytes(f, h.pos, h.val)
                  m == Malloc(hp, h.val, j # failAt)
              IN  ReadFields(f, b.pos, j + 1, field_count,
                             [fields EXCEPT ![j + 1] =
                                 [data |-> b.data, buf |-> m.p, length |-> h.val,
                                  allocated |-> 1]],
                             failAt, m.heap)

\* the blocks of the fields recorded as allocated
FieldBlocks(fields) == {fields[j].buf : j \in {k \in 1..Len(fields) : fields[k].allocated = 1}}

Header10 ==
    /\ prog = "bug10" /\ pc = "header"
    /\ \E ok \in BOOLEAN, h \in {Fread4(file, fpos)} :
        IF ~h.ok
        THEN /\ FileStep("HEADER", h.pos, "done", FileRet("ok", <<>>), fclose(heap))
             /\ UNCHANGED <<iter, record_count, records>>
        ELSE \E m \in {Malloc(heap, h.val * SizeofRecord, ok)} :
             /\ record_count' = h.val
             /\ iter' = 0
             /\ IF m.p = NULL /\ h.val > 0
                THEN /\ records' = records
                     /\ FileStep("HEADER", h.pos, "done", FileRet("ok", <<>>), fclose(heap))
                ELSE /\ records' = [k \in 1..h.val |-> NoRecord]
                     /\ FileStep("HEADER", h.pos, "loop", FileRet("ok", <<>>), m.heap)
    /\ UNCHANGED <<doc_count, docs, node_count, edge_count, graphs>>

\* one iteration of the loop over the records: the field count and the fields
ReadRecord ==
    /\ prog = "bug10" /\ pc = "loop" /\ iter < record_count
    /\ \E ok \in BOOLEAN, failAt \in FailChoices, h \in {Fread4(file, fpos)} :
        IF ~h.ok
        THEN /\ FileStep("RECORD", h.pos, "stats", FileRet("ok", <<>>), heap)
             /\ UNCHANGED <<iter, records>>
        ELSE \E m \in {Malloc(heap, h.val * SizeofField, ok)} :
             /\ iter' = iter + 1
             /\ IF m.p = NULL /\ h.val > 0
                THEN /\ records' = records
                     /\ FileStep("RECORD", h.pos, "loop", FileRet("ok", <<>>), heap)
                ELSE \E r \in {ReadFields(file, h.pos, 0, h.val,
                                          [k \in 1..h.val |-> NoField], failAt, m.heap)} :
                     /\ records' = IF r.all_ok = 1
                                   THEN [records EXCEPT ![iter + 1] =
                                           [fields |-> r.fields, mem |-> m.p,
                                            field_count |-> h.val, allocated |-> 1]]
                                   ELSE records
                     /\ FileStep("RECORD", r.pos, "loop", FileRet("ok", <<>>),
                                 IF r.all_ok = 1 THEN r.heap
                                 ELSE Release(r.heap, FieldBlocks(r.fields) \cup {m.p}))
    /\ UNCHANGED <<record_count, doc_count, docs, node_count, edge_count, graphs>>

AllocatedRecords(t) == {k \in 1..Len(t) : t[k].allocated = 1}

\* the statistics of main with the division guarded by the number of fields
\* instead of the number of records
bug10_stats_by_fields(t) ==
    LET allocated_count == Cardinality(AllocatedRecords(t))
        total_fields == SumOver([k \in 1..Len(t) |->
                                    IF t[k].allocated = 1 THEN t[k].field_count ELSE 0],
                                Len(t))
        printable == {k \in AllocatedRecords(t) : t[k].field_count > 0}
    IN  IF total_fields = 0 THEN FileCrash("div_by_zero")
        ELSE FileRet("ok",
                <<total_fields \div allocated_count>> \o
                (IF printable = {} THEN <<>>
                 ELSE LET field == t[FirstOf(printable)].fields[1]
                      IN  <<Fwrite(field.data, Min(field.length, FieldPrintMax))>>))

\* the average number of fields and the first field of the first record
\* that has one, as main prints them
bug10_stats(t) ==
    LET allocated_count == Cardinality(AllocatedRecords(t))
        total_fields == SumOver([k \in 1..Len(t) |->
                                    IF t[k].allocated = 1 THEN t[k].field_count ELSE 0],
                                Len(t))
        printable == {k \in AllocatedRecords(t) : t[k].field_count > 0}
    IN  IF allocated_count = 0 THEN FileCrash("div_by_zero")
        ELSE FileRet("ok",
                <<total_fields \div allocated_count>> \o
                (IF printable = {} THEN <<>>
                 ELSE LET field == t[FirstOf(printable)].fields[1]
                      IN  <<Fwrite(field.data, Min(field.length, FieldPrintMax))>>))

\* the blocks the cleanup of main frees: the fields of every allocated
\* record, its fields array, and the records array (the first block malloc
\* returned after fopen)
bug10_freed(t) ==
    UNION {FieldBlocks(t[k].fields) \cup {t[k].mem} : k \in AllocatedRecords(t)}
        \cup {FileHandle + 1}

\* the loop has ended: the file is closed, the statistics are printed,
\* everything is released
Stats10 ==
    /\ prog = "bug10"
    /\ pc = "stats" \/ (pc = "loop" /\ iter >= record_count)
    /\ \E r \in {bug10_stats(records)} :
        FileStep("STATS", fpos, "done", r,
                 IF r.fault = "none" THEN Release(fclose(heap), bug10_freed(records))
                 ELSE fclose(heap))
    /\ UNCHANGED <<iter, doc_count, docs, record_count, records,
                   node_count, edge_count, graphs>>

-----------------------------------------------------------------------------
(* The graph reader, bug9.c *)

NoList == [neighbors |-> <<>>, capacity |-> 0, count |-> 0]

Header9 ==
    /\ prog = "bug9" /\ pc = "header"
    /\ \E ok \in BOOLEAN, n \in {Fread4(file, fpos)} :
        IF ~n.ok
        THEN /\ FileStep("HEADER", n.pos, "done", FileRet("ok", <<>>), fclose(heap))
             /\ UNCHANGED <<iter, node_count, edge_count, graphs>>
        ELSE \E m \in {Fread4(file, n.pos)} :
             /\ node_count' = n.val
             /\ iter' = 0
             /\ IF ~m.ok
                THEN /\ UNCHANGED <<edge_count, graphs>>
                     /\ FileStep("HEADER", m.pos, "done", FileRet("ok", <<>>), fclose(heap))
                ELSE /\ edge_count' = m.val
                     /\ IF ~CanAlloc(n.val * SizeofAdjList, ok) /\ n.val > 0
                        THEN /\ graphs' = graphs
                             /\ FileStep("HEADER", m.pos, "done", FileRet("ok", <<>>),
                                         fclose(heap))
                        ELSE /\ graphs' = [k \in 1..n.val |-> NoList]
                             /\ FileStep("HEADER", m.pos, "loop", FileRet("ok", <<>>), heap)
    /\ UNCHANGED <<doc_count, docs, record_count, records>>

\* the insertion of dst into the adjacency list: ok says whether the realloc
\* succeeds if attempted
InsertEdge(list, dst, ok) ==
    LET new_cap == IF list.capacity = 0 THEN EdgeFirstCapacity ELSE list.capacity * 2
        grow == list.count >= list.capacity
    IN  IF grow /\ ~CanAlloc(new_cap * SizeofU32, ok) THEN list
        ELSE [neighbors |-> Append(list.neighbors, dst),
              capacity |-> IF grow THEN new_cap ELSE list.capacity,
              count |-> list.count + 1]

\* one iteration of the loop over the edges
ReadEdge ==
    /\ prog = "bug9" /\ pc = "loop" /\ iter < edge_count
    /\ \E ok \in BOOLEAN, src \in {Fread4(file, fpos)} :
        IF ~src.ok
        THEN /\ FileStep("EDGE", src.pos, "stats", FileRet("ok", <<>>), heap)
             /\ UNCHANGED <<iter, graphs>>
        ELSE \E dst \in {Fread4(file, src.pos)} :
             IF ~dst.ok
             THEN /\ FileStep("EDGE", dst.pos, "stats", FileRet("ok", <<>>), heap)
                  /\ UNCHANGED <<iter, graphs>>
             ELSE IF src.val >= node_count
             THEN /\ FileStep("EDGE", dst.pos, "loop", FileCrash("table_oob"), heap)
                  /\ UNCHANGED <<iter, graphs>>
             ELSE /\ graphs' = [graphs EXCEPT ![src.val + 1] = InsertEdge(@, dst.val, ok)]
                  /\ iter' = iter + 1
                  /\ FileStep("EDGE", dst.pos, "loop", FileRet("ok", <<>>), heap)
    /\ UNCHANGED <<node_count, edge_count, doc_count, docs, record_count, records>>

\* the average out-degree and the edges of node 0, as main prints them
bug9_stats(g, n) ==
    LET total_edges == SumOver([k \in 1..Len(g) |-> g[k].count], Len(g))
    IN  IF n = 0 THEN FileCrash("div_by_zero")
        ELSE FileRet("ok", <<total_edges \div n>> \o
                           (IF g[1].capacity > 0 THEN <<g[1].neighbors>> ELSE <<>>))

Stats9 ==
    /\ prog = "bug9"
    /\ pc = "stats" \/ (pc = "loop" /\ iter >= edge_count)
    /\ FileStep("STATS", fpos, "done", bug9_stats(graphs, node_count), fclose(heap))
    /\ UNCHANGED <<iter, doc_count, docs, record_count, records,
                   node_count, edge_count, graphs>>

-----------------------------------------------------------------------------
(* The file parsers as one system *)

InitFile ==
    /\ prog \in {"bug8", "bug9", "bug10"}
    /\ pc = "header"
    /\ arrays = <<>>
    /\ heap = <<Block(0, <<>>)>>
    /\ fault = "none"
    /\ last = [NoCmd EXCEPT !.args = <<>>]
    /\ ncmds = 0
    /\ NoKV
    /\ NoLoad
    /\ NoConfig
    /\ file \in Files
    /\ fpos = 0
    /\ NoTables

NextFile ==
    \/ Header8 \/ ReadDoc \/ Stats8
    \/ Header10 \/ ReadRecord \/ Stats10
    \/ Header9 \/ ReadEdge \/ Stats9

SpecFile == InitFile /\ [][NextFile]_vars

-----------------------------------------------------------------------------
(* Properties of the file parsers *)

\* no slot of the program's table ended up allocated
ZeroSlots ==
    CASE prog = "bug8" -> AllocatedDocs(docs) = {}
      [] prog = "bug10" -> AllocatedRecords(records) = {}
      [] OTHER -> node_count = 0

\* C4: when zero slots end up allocated (bug8: no document read; bug10: no
\* record read successfully; bug9: node_count = 0) the final average is
\* reported as an explicit empty result and no division by the zero count is
\* evaluated
C4_EmptyResult ==
    last.cmd = "STATS" /\ ZeroSlots
        => fault # "div_by_zero" /\ last.res = "empty"

\* every document and every field recorded as present holds as many payload
\* bytes as its declared length
PayloadComplete(x) == x.allocated = 1 => Len(x.data) = x.length

\* C6: when a declared length exceeds the bytes remaining in the file, the
\* reader (documents in bug8, fields in bug10) never records the document or
\* field as present with the declared length while fewer payload bytes were
\* actually read
C6_NoShortPayload ==
    /\ \A k \in 1..Len(docs) : PayloadComplete(docs[k])
    /\ \A k \in 1..Len(records) :
         \A j \in 1..Len(records[k].fields) : PayloadComplete(records[k].fields[j])

\* C17: in bug9 an edge whose source is not below node_count is rejected
\* without reading or writing outside graphs[0 .. node_count-1].
C17_EdgeSourceInTable ==
    (prog = "bug9" /\ last.cmd = "EDGE") => fault # "table_oob"

\* C19: in bug8 and bug10, on every exit path after the file is opened, the
\* file handle is closed and every buffer obtained from malloc is freed
\* exactly once before the program ends.
C19_EverythingReleased ==
    (prog \in {"bug8", "bug10"} /\ pc \in {"done", "crashed"})
        => \A p \in 1..Len(heap) : ~heap[p].live


\* the file holds a record count n >= 1 followed by n records, each of them a
\* field count of 0 and nothing else
ZeroFieldFile ==
    \E n \in WordVals \ {0} : file = Encode(<<n>> \o [k \in 1..n |-> 0])

-----------------------------------------------------------------------------
(* The command interpreter, bug1.c *)

JunkBytes == 10

\* the numbers of the CALC lines, and a token that is not a number
CalcNums == {0, 1, 5, 10, -1, INT_MAX, INT_MIN}
NumTokens == {Dec(n) : n \in CalcNums} \cup {<<"x">>}

\* the operator tokens of the CALC lines
OpTokens == {<<"+">>, <<"-">>, <<"*">>, <<"/">>, <<"%">>}

\* the size tokens of the ALLOC lines
AllocTokens == {Dec(n) : n \in {0, 1, 2, -1, INT_MAX}} \cup {<<"x">>}

\* what fread can deliver from the rest of standard input for a request of
\* sz bytes: sz bytes, or fewer when the input ends
StdinData(sz) ==
    {d \in SeqsUpTo({"a", "NUL"}, MaxLineLen) : Len(d) <= sz}

\* the switch of CALC on int operands; trap: a signed overflow or the
\* quotient INT_MIN / -1 traps instead of wrapping
bug1_calc(a, op, b, trap) ==
    LET exact == CASE op = "+" -> a + b
                   [] op = "-" -> a - b
                   [] op = "*" -> a * b
                   [] op = "/" -> IF b = 0 THEN 0 ELSE CDiv(a, b)
                   [] OTHER -> a
    IN  IF op = "/" /\ b = 0 THEN FileCrash("div_by_zero")
        ELSE IF (exact > INT_MAX \/ exact < INT_MIN) /\ trap
        THEN FileCrash("signed_overflow")
        ELSE FileRet("ok", <<ToInt(exact)>>)

\* tokens[0] is tokens[1]; okM: malloc succeeds; data: what fread delivers
bug1_process_command(tokens, okM, data, trap) ==
    LET count == Len(tokens) IN
    IF count < 1 THEN FileRet("ok", <<>>)
    ELSE IF tokens[1] = "CALC"
    THEN IF count >= 4
         THEN bug1_calc(atoi(tokens[2]), tokens[3][1], atoi(tokens[4]), trap)
         ELSE FileCrash("null_deref")
    ELSE IF tokens[1] = "ALLOC"
    THEN IF count >= 2
         THEN LET sz == atoi(tokens[2]) IN
              IF ~CanAlloc(ToSize(sz), okM) THEN FileCrash("oob_write")
              ELSE IF Len(data) # sz THEN FileCrash("oob_read")
              ELSE IF TokenLen(data, "NUL") = Len(data) THEN FileCrash("oob_read")
              ELSE FileRet("ok", <<SubSeq(data, 1, TokenLen(data, "NUL"))>>)
         ELSE FileCrash("oob_write")
    ELSE IF tokens[1] = "ECHO"
    THEN FileRet("ok", SubSeq(tokens, 2, count))
    ELSE IF CanAlloc(JunkBytes, okM) THEN FileCrash("oob_write")
         ELSE FileCrash("null_deref")

\* one line read by fgets, split into tokens and processed
CalcStep(tokens, r) ==
    /\ fault' = r.fault
    /\ pc' = IF r.fault = "none" THEN "run" ELSE "crashed"
    /\ last' = [cmd |-> IF tokens = <<>> THEN "" ELSE tokens[1], args |-> tokens,
                res |-> r.res, err |-> r.err, out |-> r.out]
    /\ ncmds' = ncmds + 1
    /\ UNCHANGED <<prog, arrays, heap, nonarrvars>>

\* may the result of a op b leave the range of int
CalcTrapChoices(a, op, b) ==
    IF bug1_calc(a, op, b, TRUE).fault = "signed_overflow" THEN BOOLEAN ELSE {FALSE}

Calc ==
    /\ HasLine
    /\ \E tokens \in {<<"CALC", a, op, b>> : a \in NumTokens, op \in OpTokens,
                                              b \in NumTokens}
                     \cup {<<"CALC">>, <<"CALC", Dec(1)>>, <<"CALC", Dec(1), <<"+">>>>} :
        \E trap \in (IF Len(tokens) < 4 THEN {FALSE}
                     ELSE CalcTrapChoices(atoi(tokens[2]), tokens[3][1], atoi(tokens[4]))) :
            CalcStep(tokens, bug1_process_command(tokens, TRUE, <<>>, trap))

Alloc ==
    /\ HasLine
    /\ \E tokens \in {<<"ALLOC", sz>> : sz \in AllocTokens} \cup {<<"ALLOC">>},
          okM \in BOOLEAN :
        \E data \in (IF Len(tokens) < 2 THEN {<<>>} ELSE StdinData(atoi(tokens[2]))) :
            CalcStep(tokens, bug1_process_command(tokens, okM, data, FALSE))

Echo ==
    /\ HasLine
    /\ \E tokens \in {<<"ECHO">>, <<"ECHO", <<"a">>>>, <<"ECHO", <<"a">>, Dec(1)>>} :
        CalcStep(tokens, bug1_process_command(tokens, TRUE, <<>>, FALSE))

\* a line with another first token, or with no token at all
OtherLine ==
    /\ HasLine
    /\ \E tokens \in {<<>>, <<"HELP">>, <<"calc", Dec(1), <<"+">>, Dec(1)>>},
          okM \in BOOLEAN :
        CalcStep(tokens, bug1_process_command(tokens, okM, <<>>, FALSE))

\* fgets reports end of input: main returns 0
EofCalc ==
    /\ pc = "run"
    /\ pc' = "done"
    /\ last' = [cmd |-> "EOF", args |-> <<>>, res |-> "ok", err |-> "", out |-> <<>>]
    /\ UNCHANGED <<prog, arrays, heap, fault, ncmds, nonarrvars>>

InitCalc ==
    /\ prog = "bug1"
    /\ pc = "run"
    /\ arrays = <<>>
    /\ heap = <<>>
    /\ fault = "none"
    /\ last = [NoCmd EXCEPT !.args = <<>>]
    /\ ncmds = 0
    /\ NoKV
    /\ NoLoad
    /\ NoConfig
    /\ NoFile

NextCalc == Calc \/ Alloc \/ Echo \/ OtherLine \/ EofCalc

SpecCalc == InitCalc /\ [][NextCalc]_vars

-----------------------------------------------------------------------------
(* Properties of the command interpreter *)

\* the last line was CALC with its three arguments
CalcLine == last.cmd = "CALC" /\ Len(last.args) >= 4

\* C11: CALC a / 0 produces a division-by-zero error for that command and
\* does not crash: the division is not evaluated with divisor 0 and the next
\* input line is still processed
C11_CalcDivisionByZeroReported ==
    (CalcLine /\ last.args[3] = <<"/">> /\ last.args[4] = Dec(0))
        => fault = "none" /\ pc = "run" /\ last.res = "rejected"

\* a op b on the integers, the quotient truncated towards zero
Exact(a, op, b) ==
    CASE op = <<"+">> -> a + b
      [] op = <<"-">> -> a - b
      [] op = <<"*">> -> a * b
      [] OTHER -> CDiv(a, b)

\* C12: CALC a op b with op one of + - * / (b # 0 for /) prints Result: r
\* where r is a op b computed on the integers, division truncating toward
\* zero
C12_CalcResult ==
    \A a \in CalcNums, b \in CalcNums :
        (/\ CalcLine
         /\ last.args[2] = Dec(a) /\ last.args[4] = Dec(b)
         /\ last.args[3] \in {<<"+">>, <<"-">>, <<"*">>, <<"/">>}
         /\ (last.args[3] = <<"/">> => b # 0))
            => fault = "none" /\ last.out = <<Exact(a, last.args[3], b)>>

\* the last line was malformed: an unknown command name, CALC with fewer
\* than three arguments, ALLOC without a size or with a size that cannot be
\* allocated
MalformedLine ==
    \/ last.cmd \in {"HELP", "calc"}
    \/ last.cmd = "CALC" /\ Len(last.args) < 4
    \/ last.cmd = "ALLOC" /\ Len(last.args) < 2
    \/ last.cmd = "ALLOC" /\ Len(last.args) >= 2
          /\ ToSize(atoi(last.args[2])) > MaxAllocBytes

\* C13: a malformed line ends the processing of that line only: no memory
\* outside an owned buffer is read or written and the loop goes on to read
\* the next line
C13_MalformedLineSkipped ==
    MalformedLine => fault = "none" /\ pc = "run"

-----------------------------------------------------------------------------
(* The configuration reader, bug4.cpp *)

ConfigPrefixLen == 7

ConfigPrefix == <<"C", "O", "N", "F", "I", "G", " ">>

\* std::string::npos
npos == SIZE_MAX

\* rest.find('='): the position of the first '=', npos when there is none
find(rest, ch) ==
    IF \E k \in 1..Len(rest) : rest[k] = ch
    THEN (CHOOSE k \in 1..Len(rest) : rest[k] = ch /\ \A j \in 1..(k - 1) : rest[j] # ch) - 1
    ELSE npos

\* the body of the reading loop up to the push_back: the entry the line adds,
\* if it adds one
bug4_parse_line(line) ==
    IF Len(line) > ConfigPrefixLen /\ SubSeq(line, 1, ConfigPrefixLen) = ConfigPrefix
    THEN LET rest == SubSeq(line, ConfigPrefixLen + 1, Len(line))
             eq_pos == find(rest, "=")
         IN  IF eq_pos # npos /\ eq_pos > 0 /\ eq_pos < Len(rest) - 1
             THEN [valid |-> TRUE,
                   param |-> SubSeq(rest, 1, eq_pos),
                   value |-> SubSeq(rest, eq_pos + 2, Len(rest))]
             ELSE [valid |-> FALSE, param |-> <<>>, value |-> <<>>]
    ELSE [valid |-> FALSE, param |-> <<>>, value |-> <<>>]

\* the text after "CONFIG " on a line
ConfigRests == SeqsUpTo({"a", "="}, MaxWords)

\* input lines: with the prefix, without it, and with the prefix cut short
ConfigLines ==
    {ConfigPrefix \o r : r \in ConfigRests}
        \cup {<<>>, <<"a", "=", "a">>, <<"C", "O", "N", "F", "I", "G", "a", "=", "a">>}

\* A pointer kept in paramPointers: the entry whose param it came from, and
\* whether the characters it points at are still where they were.  The
\* params of the model are short strings, stored inside the entry itself, so
\* a push_back that moves the entries to new storage leaves every pointer
\* taken before it dangling.  Whether a push_back onto a non-empty vector
\* moves the entries depends on the capacity the library chose.
ParamPointer(k, valid) == [entry |-> k, valid |-> valid]

\* entries.push_back({param, val}); paramPointers.push_back(entries.back().param.c_str())
bug4_push_back(es, ps, e, moved) ==
    [entries |-> Append(es, [param |-> e.param, value |-> e.value]),
     paramPointers |->
        Append(IF moved THEN [k \in 1..Len(ps) |-> ParamPointer(ps[k].entry, FALSE)] ELSE ps,
               ParamPointer(Len(es) + 1, TRUE))]

\* the final report of main: both branches read paramPointers[0]
bug4_report(es, ps) ==
    IF ps # <<>>
    THEN IF ~ps[1].valid THEN FileCrash("use_after_free")
         ELSE FileRet("ok", <<es[ps[1].entry].param>>)
    ELSE FileCrash("oob_read")

\* getline returned a line
ConfigLine ==
    /\ prog = "bug4" /\ pc = "run" /\ ncmds < MaxLines
    /\ \E line \in ConfigLines :
        \E e \in {bug4_parse_line(line)} :
          \E moved \in (IF e.valid /\ entries # <<>> THEN BOOLEAN ELSE {e.valid}) :
            /\ \E r \in {IF e.valid THEN bug4_push_back(entries, paramPointers, e, moved)
                         ELSE [entries |-> entries, paramPointers |-> paramPointers]} :
                /\ entries' = r.entries
                /\ paramPointers' = r.paramPointers
            /\ last' = [cmd |-> "LINE", args |-> <<e.param, e.value>>,
                        res |-> IF e.valid THEN "ok" ELSE "ignored", err |-> "", out |-> <<>>]
            /\ ncmds' = ncmds + 1
            /\ UNCHANGED <<prog, pc, arrays, heap, fault, kvvars, loadvars, filevars>>

\* getline reports end of input: the final report, then main returns 0
Report ==
    /\ prog = "bug4" /\ pc = "run"
    /\ \E r \in {bug4_report(entries, paramPointers)} :
        /\ fault' = r.fault
        /\ pc' = IF r.fault = "none" THEN "done" ELSE "crashed"
        /\ last' = [cmd |-> "REPORT", args |-> <<>>, res |-> r.res, err |-> r.err, out |-> r.out]
    /\ UNCHANGED <<prog, arrays, heap, ncmds, kvvars, loadvars, filevars, cfgvars>>

InitConfig ==
    /\ prog = "bug4"
    /\ pc = "run"
    /\ arrays = <<>>
    /\ heap = <<>>
    /\ fault = "none"
    /\ last = [NoCmd EXCEPT !.args = <<>>]
    /\ ncmds = 0
    /\ NoKV
    /\ NoLoad
    /\ NoConfig
    /\ NoFile

NextConfig == ConfigLine \/ Report

SpecConfig == InitConfig /\ [][NextConfig]_vars

-----------------------------------------------------------------------------
(* Properties of the configuration reader *)

\* C18: when the input holds no valid `CONFIG param=value` line, the final
\* report of bug4 does not read element 0 of the empty paramPointers vector.
C18_ReportOfNoEntry ==
    (prog = "bug4" /\ last.cmd = "REPORT" /\ paramPointers = <<>>) => fault # "oob_read"

\* C28: after any number of valid CONFIG lines paramPointers has one element
\* for each entry, element i refers to the characters of entries[i].param
\* where they are now stored, and the final report prints the param of the
\* first valid line without reading released storage.
C28_PointersFollowEntries ==
    prog = "bug4" =>
        /\ Len(paramPointers) = Len(entries)
        /\ \A k \in 1..Len(paramPointers) :
              paramPointers[k].entry = k /\ paramPointers[k].valid
        /\ (last.cmd = "REPORT" /\ entries # <<>>) =>
              (fault = "none" /\ last.out = <<entries[1].param>>)

-----------------------------------------------------------------------------
(* The programs that read command lines (bug1, bug5, bug6, bug7), each from  *)
(* its own initial state.                                                    *)

InitLines == Init \/ InitKV \/ InitCalc

NextLines ==
    \/ prog \in {"bug5", "bug6"} /\ Next
    \/ prog = "bug7" /\ NextKV
    \/ prog = "bug1" /\ NextCalc

SpecLines == InitLines /\ [][NextLines]_vars

\* the number of arguments of the commands of bug5 and bug6, in the order of Words
Arities == <<2, 2, 4, 3, 1, 1, 3>>

\* tokens name no command, or a command with fewer arguments than it takes
UnknownOrShort(p, tokens) ==
    IF p = "bug7"
    THEN \/ tokens[1] \notin {"SET", "REMOVE", "COMPUTE", "DUMP"}
         \/ tokens[1] \in {"SET", "REMOVE"} /\ Len(tokens) < 2
    ELSE ~\E k \in 1..7 : Words(p)[k] = tokens[1] /\ Len(tokens) > Arities[k]

\* a step of bug5, bug6 or bug7 that read a line naming no command or too
\* few arguments
ReadUnknownOrShort ==
    /\ prog \in {"bug5", "bug6", "bug7"}
    /\ Ran("LINE")
    /\ UnknownOrShort(prog, last'.args)

IsDecimal(tok) ==
    LET d == IF tok # <<>> /\ Head(tok) \in {"-", "+"} THEN Tail(tok) ELSE tok
    IN  d # <<>> /\ \A k \in 1..Len(d) : Digit(d[k]) >= 0

\* a step that read a command with all its arguments, one of its index or
\* size arguments not being a decimal number
ReadNonDecimal ==
    /\ ncmds' = ncmds + 1
    /\ \/ /\ prog \in {"bug5", "bug6"} /\ last'.cmd = "LINE"
          /\ ~UnknownOrShort(prog, last'.args)
          /\ \E k \in 2..Len(last'.args) : ~IsDecimal(last'.args[k])
       \/ /\ prog = "bug1" /\ last'.cmd = "CALC" /\ Len(last'.args) >= 4
          /\ ~IsDecimal(last'.args[2]) \/ ~IsDecimal(last'.args[4])
       \/ /\ prog = "bug1" /\ last'.cmd = "ALLOC" /\ Len(last'.args) >= 2
          /\ ~IsDecimal(last'.args[2])

\* C15: in bug1, bug5 and bug6 an index or size argument that is not a decimal
\* number is rejected with a not-a-number error instead of being executed with
\* the value 0 (`CREATE x 10` does not create an array at index 0).
C15_NonDecimalRejected ==
    [][ReadNonDecimal =>
        /\ last'.err # "" /\ last'.out = <<>>
        /\ fault' = "none"
        /\ UNCHANGED <<arrays, heap>>]_vars

-----------------------------------------------------------------------------
(* The programs that read a file named on the command line (bug3, bug7,     *)
(* bug8, bug9, bug10), from the entry of main.                               *)

\* the command lines: the program name alone, or followed by a file path
Argcs == {1, 2}

\* the first statements of main: the test of argc and the fopen.  fp is what
\* fopen returns.  bug8, bug9 and bug10 keep the open file as a block of the
\* heap; the models of bug3 and bug7 do not follow their file handle.
OpenInput ==
    /\ pc = "start"
    /\ \E argc \in Argcs :
      \E fp \in (IF argc < 2 THEN {NULL} ELSE {NULL, FileHandle}) :
        /\ pc' = IF argc < 2 THEN "usage"
                 ELSE IF fp = NULL THEN "noopen"
                 ELSE IF prog \in {"bug8", "bug9", "bug10"} THEN "header"
                 ELSE "run"
        /\ heap' = IF fp # NULL /\ prog \in {"bug8", "bug9", "bug10"}
                   THEN <<Block(0, <<>>)>> ELSE heap
        /\ last' = [cmd |-> "MAIN", args |-> <<argc, fp>>,
                    res |-> IF fp = NULL THEN "rejected" ELSE "ok",
                    err |-> IF argc < 2 THEN "Usage: %s <inputfile>"
                            ELSE IF fp = NULL THEN "Could not open file %s"
                            ELSE "",
                    out |-> <<>>]
        /\ UNCHANGED <<prog, arrays, fault, ncmds, nonarrvars>>

\* the value main returned: 1 from the two early returns, 0 from every other
\* return statement; -1 stands for no exit status, the program being still
\* running or having been stopped by a fault
ExitStatus ==
    IF pc \in {"usage", "noopen"} THEN 1
    ELSE IF pc = "done" THEN 0
    ELSE -1

InitMain ==
    /\ prog \in {"bug3", "bug7", "bug8", "bug9", "bug10"}
    /\ pc = "start"
    /\ arrays = <<>>
    /\ heap = <<>>
    /\ fault = "none"
    /\ last = [NoCmd EXCEPT !.args = IF prog = "bug7" THEN <<"", "">> ELSE <<>>]
    /\ ncmds = 0
    /\ NoKV
    /\ NoLoad
    /\ NoConfig
    /\ file \in (IF prog \in {"bug8", "bug9", "bug10"} THEN Files ELSE {<<>>})
    /\ fpos = 0
    /\ NoTables

NextMain ==
    \/ OpenInput
    \/ prog = "bug7" /\ NextKV
    \/ ReadBookLine \/ EofLoad
    \/ NextFile

SpecMain == InitMain /\ [][NextMain]_vars

\* the run is over
Terminated == pc \in {"usage", "noopen", "done", "crashed"}

\* C23: the file-based programs exit with status 1 after a usage message when
\* no file argument is given, exit with status 1 when the file cannot be
\* opened, and return status 0 on every other terminating run, including a
\* file too short to hold its header.
C23_ExitStatus ==
    [][/\ (last'.cmd = "MAIN" /\ last'.args[1] < 2) =>
              ExitStatus' = 1 /\ last'.err = "Usage: %s <inputfile>"
       /\ (last'.cmd = "MAIN" /\ last'.args[1] >= 2 /\ last'.args[2] = NULL) =>
              ExitStatus' = 1
       /\ (pc # "start" /\ Terminated') => ExitStatus' = 0]_vars

====
